---- MODULE Spec2Model ----
(***************************************************************************)
(* BandtrackPlus: access and persistence core.                             *)
(*                                                                         *)
(* Several specifications share the variables:                             *)
(*   Spec         registration, context, groups and memberships of the     *)
(*                HTTP API (src/bandtrack/api/__init__.py), one action per *)
(*                request, against the embedded backend;                   *)
(*   SpecRes      registration, login, group creation and the resource     *)
(*                handlers of the same API;                                *)
(*   SpecSession  the session store (src/bandtrack/auth/__init__.py) with  *)
(*                a clock and concurrent callers, against the embedded     *)
(*                backend, whose write lock a caller holds from its first  *)
(*                statement to its commit;                                 *)
(*   SpecUow      the unit of work of the persistence adapter              *)
(*                (src/bandtrack/db/__init__.py) on both backends;         *)
(*   SpecWrite    execute_write and its retries;                           *)
(*   SpecGate     verify_group_access as a function of the tables;         *)
(*   SpecRace     registration, joining and invitation by threads;         *)
(*   SpecRegErr   the failures of api_register;                            *)
(*   SpecCtx      the group of a request and the stored context;           *)
(*   SpecAnon     requests without a valid session;                        *)
(*   SpecFirst    the role of the first registered user;                   *)
(*   SpecAcct     deletion of the caller's account;                        *)
(*   SpecLogin    the group a login binds;                                 *)
(*   SpecOwn      ownership of performances;                               *)
(*   SpecBoot     init_db and run_server at start-up;                      *)
(*   SpecStmt     placeholders, parameters and lastrowid of execute_write; *)
(*   SpecConn     the connections opened by get_db_connection;             *)
(*   SpecMk       the two steps of api_create_group;                       *)
(*   SpecVote     votes and the likes counter of a suggestion;             *)
(*   SpecLeave    leaving a group with several sessions.                   *)
(***************************************************************************)
EXTENDS Integers, Sequences, FiniteSets, TLC

\* ---------------------------------------------------------------- bounds
MaxUsers == 2
MaxGroups == 2
MaxMemberships == 2
MaxTokens == 2
MaxItems == 1
MaxCodes == 3
MaxProcs == 2
MaxSessions == 2
MaxTime == 2
MaxUnits == 2
MaxStatements == 2
MaxRequests == 3

NULL == 0

Roles == {"user", "moderator", "admin"}
NONE == "None"
NOGATE == "nogate"

UserIds == 1..MaxUsers
GroupIds == 1..MaxGroups
Tokens == 1..MaxTokens
Contents == {0, 1}

Procs == 1..MaxProcs

\* the sliding window of get_user_by_session (7 * 24 * 3600 seconds), in
\* clock ticks of three and a half days
WINDOW == 2

\* the duration_seconds generate_session can be called with
Durations == {WINDOW - 1, WINDOW, WINDOW + 1}

VARIABLES
    users,          \* id -> [role, last_group_id]
    groups,         \* id -> [owner_id, code]
    memberships,    \* id -> [user_id, group_id, role, active]
    sessions,       \* token -> [user_id, group_id, expires_at]
    suggestions,    \* id -> [group_id, creator_id, content]
    rehearsals,     \* id -> [group_id, creator_id, content]
    performances,   \* id -> [group_id, creator_id, content]
    seq,            \* AUTOINCREMENT counters and issued tokens
    now,            \* int(time.time())
    resp,           \* what the last request did and answered
    proc,           \* SpecSession: each caller's position in get_user_by_session
    lock,           \* SpecSession: the caller holding the database write lock
    issued,         \* SpecSession: token -> the duration it was issued with
    revoked,        \* SpecSession: tokens whose delete_session has completed
    backend,        \* SpecUow: "sqlite" or "postgres" (_using_postgres)
    uow,            \* SpecUow: the unit of work in progress
    committed,      \* SpecUow: the writes other connections can see
    wr,             \* SpecWrite: the call of execute_write in progress
    req,            \* SpecRace: each request thread's handler and position
    usernames,      \* SpecRace: user id -> users.username
    gatecall,       \* SpecGate: the last call of verify_group_access
    reg,            \* SpecRegErr: the registration in progress
    call,           \* the request line and principal of the last API request
    boot,           \* SpecBoot: the database file and the runs of run_server
    conns,          \* SpecConn: the connections opened so far, open or closed
    votes           \* SpecVote: suggestion_votes and suggestions.likes

dbvars == <<users, groups, memberships, sessions, suggestions, rehearsals,
            performances, seq, now>>

storevars == <<proc, lock, issued, revoked>>

uowvars == <<backend, uow, committed>>

wrvars == <<wr>>

racevars == <<req, usernames>>

gatevars == <<gatecall>>

regvars == <<reg>>

extvars == <<boot, conns, votes>>

auxvars == <<wrvars, racevars, gatevars, regvars, extvars>>

\* ------------------------------------------------------------ row helpers
Put(f, k, v) == [x \in DOMAIN f \cup {k} |-> IF x = k THEN v ELSE f[x]]

Drop(f, ks) == [x \in DOMAIN f \ ks |-> f[x]]

Min(S) == CHOOSE x \in S : \A y \in S : x <= y

EmptyTable == [x \in {} |-> 0]

\* SELECT ... FROM memberships WHERE user_id = ? AND group_id = ?
get_membership(uid, gid) ==
    LET hit == {m \in DOMAIN memberships :
                  memberships[m].user_id = uid /\ memberships[m].group_id = gid}
    IN IF hit = {} THEN NULL ELSE Min(hit)

\* a table of levels that ranks moderator above admin
ROLE_LEVELS_swapped(r) ==
    CASE r = "user" -> 1
      [] r = "moderator" -> 3
      [] r = "admin" -> 2
      [] OTHER -> 0

\* ROLE_LEVELS.get(r, 0)
ROLE_LEVELS(r) ==
    CASE r = "user" -> 1
      [] r = "moderator" -> 2
      [] r = "admin" -> 3
      [] OTHER -> 0

verify_group_access(uid, gid, required_role) ==
    IF gid = NULL THEN NONE
    ELSE LET m == get_membership(uid, gid) IN
         IF m = NULL \/ ~memberships[m].active THEN NONE
         ELSE IF ROLE_LEVELS(memberships[m].role) < ROLE_LEVELS(required_role)
              THEN NONE
              ELSE memberships[m].role

\* SELECT g.id FROM groups g JOIN memberships m ON m.group_id = g.id
\* WHERE m.user_id = ? AND m.active = 1, over the memberships table tbl
get_groups_for_user(tbl, uid) ==
    {tbl[m].group_id : m \in {x \in DOMAIN tbl :
        tbl[x].user_id = uid /\ tbl[x].active /\ tbl[x].group_id \in DOMAIN groups}}

get_group_by_code(code) ==
    LET hit == {g \in DOMAIN groups : groups[g].code = code}
    IN IF hit = {} THEN NULL ELSE Min(hit)

\* generate_unique_invitation_code: a code no group has; the codes are random
\* six-character strings, modelled as never drawn twice
NewCode == seq.codes + 1

\* INSERT INTO sessions ... with expires_at = now + duration_seconds
generate_session(tbl, token, uid, gid, duration) ==
    Put(tbl, token, [user_id |-> uid, group_id |-> gid, expires_at |-> now + duration])

\* get_user_by_session as one serialised unit: purge, look up, slide
\* DELETE FROM sessions WHERE expires_at < ? (a purge that keeps the row
\* whose expiry is the current second)
PurgeExpiredStrict(tbl, t) == Drop(tbl, {x \in DOMAIN tbl : tbl[x].expires_at < t})

\* DELETE FROM sessions WHERE expires_at <= ?
PurgeExpired(tbl, t) == Drop(tbl, {x \in DOMAIN tbl : tbl[x].expires_at <= t})

SessionsAfterResolve(token) ==
    LET live == PurgeExpired(sessions, now) IN
    IF token \in DOMAIN live
    THEN [live EXCEPT ![token].expires_at = now + WINDOW]
    ELSE live

get_user_by_session(token) ==
    LET live == PurgeExpired(sessions, now) IN
    IF token \in DOMAIN live /\ live[token].user_id \in DOMAIN users
    THEN [id |-> live[token].user_id,
          role |-> users[live[token].user_id].role,
          group_id |-> live[token].group_id]
    ELSE [id |-> NULL, role |-> NONE, group_id |-> NULL]

\* handle_api_request: the principal after the path override
Principal(token, pathgid) ==
    LET u == get_user_by_session(token) IN
    IF u.id # NULL /\ pathgid # NULL THEN [u EXCEPT !.group_id = pathgid] ELSE u

\* a router that lets every request through to its handler
RouterOk_open(user) == TRUE

\* the router's check for every handler but handle_auth
RouterOk(user) == user.id # NULL /\ user.group_id # NULL

\* The request line kept of the last API request: the session cookie, the
\* group id in the path and the other inputs, with what the cookie resolved
\* to when the request arrived: uid, the user get_user_by_session returned,
\* and bound, the group id stored in the session row.
NoCall ==
    [token |-> NULL, pathgid |-> NULL, args |-> <<>>, uid |-> NULL, bound |-> NULL]

Call(token, pathgid, args) ==
    [token |-> token, pathgid |-> pathgid, args |-> args,
     uid |-> get_user_by_session(token).id,
     bound |-> get_user_by_session(token).group_id]

\* The record kept of the last request.  Every request leaves its operation
\* and HTTP status.  A tenant-scoped request that was let through also leaves:
\* actor and gid (the principal and the group the request resolved to),
\* mem (the groups in which the actor held an active membership when the
\* request began), gate (what verify_group_access returned, NOGATE when the handler
\* never called it), stmt (a statement on a resource table was executed) and
\* rows (the resource rows that statement matched, with their group).
\* A membership deletion leaves the user it removed in target.
IsActiveMember(uid, gid) ==
    \E m \in DOMAIN memberships :
        /\ memberships[m].user_id = uid
        /\ memberships[m].group_id = gid
        /\ memberships[m].active

Row(kind, id, gid) == [kind |-> kind, id |-> id, gid |-> gid]

Resp(op, status) ==
    [op |-> op, status |-> status, actor |-> NULL, gid |-> NULL, target |-> NULL,
     mem |-> {}, gate |-> NOGATE, stmt |-> FALSE, rows |-> {}]

TenantResp(op, status, user, gate, stmt, rows) ==
    [op |-> op, status |-> status, actor |-> user.id, gid |-> user.group_id,
     target |-> NULL, mem |-> {g \in GroupIds : IsActiveMember(user.id, g)},
     gate |-> gate, stmt |-> stmt, rows |-> rows]

\* ------------------------------------------------------------------ Init
\* init_db on a new embedded database inserts user 'admin' and group 1;
\* on an existing database without users it inserts nothing.
InitFresh ==
    /\ users = Put(EmptyTable, 1, [role |-> "user", last_group_id |-> NULL])
    /\ groups = Put(EmptyTable, 1, [owner_id |-> 1, code |-> 1])
    /\ seq = [users |-> 1, groups |-> 1, memberships |-> 0, tokens |-> 0,
              codes |-> 1, sug |-> 0, reh |-> 0, perf |-> 0]

InitEmpty ==
    /\ users = EmptyTable
    /\ groups = EmptyTable
    /\ seq = [users |-> 0, groups |-> 0, memberships |-> 0, tokens |-> 0,
              codes |-> 0, sug |-> 0, reh |-> 0, perf |-> 0]

InitDb ==
    /\ (InitFresh \/ InitEmpty)
    /\ memberships = EmptyTable
    /\ sessions = EmptyTable
    /\ suggestions = EmptyTable
    /\ rehearsals = EmptyTable
    /\ performances = EmptyTable
    /\ now = 0

\* the tables and columns of the database file that init_db's migrations
\* look at
BootTables == {"users", "groups", "sessions", "performances"}

ColumnsOf(t) ==
    CASE t = "users" -> {"users.role"}
      [] t = "sessions" -> {"sessions.group_id"}
      [] t = "performances" -> {"performances.location"}
      [] OTHER -> {}

\* no vote row, and likes 0, as api_create_suggestion inserts it
NoVotes ==
    [rows |-> [k \in (1..MaxItems) \X (1..MaxUsers) |-> 0],
     likes |-> [i \in 1..MaxItems |-> 0]]

\* no connection and no vote yet; the database file as a completed init_db
\* leaves it, with no run of run_server on record
InitExt ==
    /\ conns = <<>>
    /\ votes = NoVotes
    /\ boot = [file |-> TRUE, tables |-> BootTables,
            cols |-> UNION {ColumnsOf(t) : t \in BootTables},
            admin |-> IF 1 \in DOMAIN users THEN "set" ELSE "none",
            group1 |-> 1 \in DOMAIN groups,
            runs |-> 0, pw |-> NULL, err |-> "none", serving |-> FALSE]

\* no statement, request thread, gate call or registration is under way; the
\* only user a new database holds is 'admin'
InitAux ==
    /\ wr = [state |-> "idle", n |-> 0]
    /\ req = [p \in Procs |-> [pc |-> "idle"]]
    /\ usernames = [u \in DOMAIN users |-> "admin"]
    /\ gatecall = [state |-> "idle"]
    /\ reg = [state |-> "idle", n |-> 0]
    /\ InitExt

\* no caller of the session store and no unit of work is under way
InitIdle ==
    /\ InitAux
    /\ proc = [p \in Procs |-> [pc |-> "idle"]]
    /\ lock = NULL
    /\ issued = EmptyTable
    /\ revoked = {}
    /\ backend = "sqlite"
    /\ uow = [state |-> "idle", n |-> 0]
    /\ committed = {}

Init ==
    /\ InitDb
    /\ resp = Resp("init", 0)
    /\ call = NoCall
    /\ InitIdle

\* ------------------------------------------------------ auth handlers
\* api_register: a new username (a taken one is answered 409 before any write)
Register ==
    /\ seq.users < MaxUsers
    /\ seq.tokens < MaxTokens
    /\ seq.memberships < MaxMemberships
    /\ LET uid == seq.users + 1
           role == IF DOMAIN users = {} THEN "admin" ELSE "user"
           mid == seq.memberships + 1
           tok == seq.tokens + 1
           mkgroup == 1 \notin DOMAIN groups
       IN
       /\ mkgroup => seq.codes < MaxCodes
       /\ groups' = IF mkgroup
                    THEN Put(groups, 1, [owner_id |-> uid, code |-> NewCode])
                    ELSE groups
       /\ users' = Put(users, uid, [role |-> role, last_group_id |-> 1])
       /\ memberships' = Put(memberships, mid,
              [user_id |-> uid, group_id |-> 1, role |-> role, active |-> TRUE])
       /\ sessions' = generate_session(sessions, tok, uid, 1, WINDOW)
       /\ seq' = [seq EXCEPT !.users = uid, !.memberships = mid, !.tokens = tok,
                             !.groups = IF mkgroup /\ @ < 1 THEN 1 ELSE @,
                             !.codes = IF mkgroup THEN @ + 1 ELSE @]
       /\ resp' = Resp("register", 200)
    /\ UNCHANGED <<suggestions, rehearsals, performances, now>>
    /\ call' = Call(NULL, NULL, <<>>)
    /\ UNCHANGED <<storevars, uowvars, auxvars>>

\* a choice that ignores last_group_id
LoginGroup_lowest(uid) ==
    LET actall == {memberships[m].group_id : m \in {x \in DOMAIN memberships :
                      memberships[x].user_id = uid /\ memberships[x].active}}
    IN IF actall = {} THEN NULL ELSE Min(actall)

\* api_login with valid credentials of user uid
LoginGroup(uid) ==
    LET last == users[uid].last_group_id
        keep == IF last # NULL /\ IsActiveMember(uid, last) THEN last ELSE NULL
        actall == {memberships[m].group_id : m \in {x \in DOMAIN memberships :
                      memberships[x].user_id = uid /\ memberships[x].active}}
    IN IF keep # NULL THEN keep
       ELSE IF actall = {} THEN NULL ELSE Min(actall)

Login(uid) ==
    /\ uid \in DOMAIN users
    /\ seq.tokens < MaxTokens
    /\ LET gid == LoginGroup(uid)
           tok == seq.tokens + 1
       IN
       /\ users' = [users EXCEPT ![uid].last_group_id = gid]
       /\ sessions' = generate_session(sessions, tok, uid, gid, WINDOW)
       /\ seq' = [seq EXCEPT !.tokens = tok]
       /\ resp' = Resp("login", 200)
    /\ UNCHANGED <<groups, memberships, suggestions, rehearsals, performances, now>>
    /\ call' = Call(NULL, NULL, <<uid>>)
    /\ UNCHANGED <<storevars, uowvars, auxvars>>

\* a request that ends without touching anything but the session's expiry;
\* of a refused request only the operation and the answer are kept
Reject(op, token, user, status, gate) ==
    /\ sessions' = SessionsAfterResolve(token)
    /\ resp' = Resp(op, status)
    /\ UNCHANGED <<users, groups, memberships, suggestions, rehearsals,
                   performances, seq>>

\* --------------------------------------------------- context and groups
\* PUT /api/context {groupId: g}
SetContext(token, pathgid, g) ==
    /\ token \in 1..seq.tokens
    /\ LET user == Principal(token, pathgid) IN
       IF ~RouterOk(user) THEN Reject("set_context", token, user, 403, NOGATE)
       ELSE IF ~IsActiveMember(user.id, g)
       THEN Reject("set_context", token, user, 403, NOGATE)
       ELSE /\ sessions' = [SessionsAfterResolve(token) EXCEPT ![token].group_id = g]
            /\ users' = [users EXCEPT ![user.id].last_group_id = g]
            /\ resp' = Resp("set_context", 200)
            /\ UNCHANGED <<groups, memberships, suggestions, rehearsals,
                           performances, seq>>
    /\ UNCHANGED now
    /\ call' = Call(token, pathgid, <<g>>)
    /\ UNCHANGED <<storevars, uowvars, auxvars>>

\* create_membership: INSERT INTO memberships
create_membership(tbl, mid, uid, gid, role) ==
    Put(tbl, mid, [user_id |-> uid, group_id |-> gid, role |-> role, active |-> TRUE])

\* POST /api/groups
CreateGroup(token, pathgid) ==
    /\ token \in 1..seq.tokens
    /\ LET user == Principal(token, pathgid) IN
       IF ~RouterOk(user) THEN Reject("create_group", token, user, 403, NOGATE)
       ELSE /\ seq.groups < MaxGroups
            /\ seq.memberships < MaxMemberships
            /\ seq.codes < MaxCodes
            /\ groups' = Put(groups, seq.groups + 1,
                             [owner_id |-> user.id, code |-> NewCode])
            /\ memberships' = create_membership(memberships, seq.memberships + 1,
                                                user.id, seq.groups + 1, "admin")
            /\ seq' = [seq EXCEPT !.groups = @ + 1, !.memberships = @ + 1,
                                  !.codes = @ + 1]
            /\ sessions' = SessionsAfterResolve(token)
            /\ resp' = Resp("create_group", 201)
            /\ UNCHANGED <<users, suggestions, rehearsals, performances>>
    /\ UNCHANGED now
    /\ call' = Call(token, pathgid, <<>>)
    /\ UNCHANGED <<storevars, uowvars, auxvars>>

\* POST /api/groups/join {code}
JoinGroup(token, pathgid, code) ==
    /\ token \in 1..seq.tokens
    /\ LET user == Principal(token, pathgid)
           g == get_group_by_code(code)
       IN
       IF ~RouterOk(user) THEN Reject("join_group", token, user, 403, NOGATE)
       ELSE IF g = NULL THEN Reject("join_group", token, user, 404, NOGATE)
       ELSE IF get_membership(user.id, g) # NULL
       THEN Reject("join_group", token, user, 409, NOGATE)
       ELSE /\ seq.memberships < MaxMemberships
            /\ memberships' = create_membership(memberships, seq.memberships + 1,
                                                user.id, g, "user")
            /\ seq' = [seq EXCEPT !.memberships = @ + 1]
            /\ sessions' = SessionsAfterResolve(token)
            /\ resp' = Resp("join_group", 201)
            /\ UNCHANGED <<users, groups, suggestions, rehearsals, performances>>
    /\ UNCHANGED now
    /\ call' = Call(token, pathgid, <<code>>)
    /\ UNCHANGED <<storevars, uowvars, auxvars>>

\* POST /api/groups/renew-code
RenewGroupCode(token, pathgid) ==
    /\ token \in 1..seq.tokens
    /\ LET user == Principal(token, pathgid)
           m == get_membership(user.id, user.group_id)
       IN
       IF ~RouterOk(user) THEN Reject("renew_code", token, user, 403, NOGATE)
       ELSE IF m = NULL \/ memberships[m].role # "admin"
       THEN Reject("renew_code", token, user, 403, NOGATE)
       ELSE /\ seq.codes < MaxCodes
            /\ groups' = IF user.group_id \in DOMAIN groups
                         THEN [groups EXCEPT ![user.group_id].code = NewCode]
                         ELSE groups
            /\ seq' = [seq EXCEPT !.codes = @ + 1]
            /\ sessions' = SessionsAfterResolve(token)
            /\ resp' = TenantResp("renew_code", 200, user, NOGATE, FALSE, {})
            /\ UNCHANGED <<users, memberships, suggestions, rehearsals,
                           performances>>
    /\ UNCHANGED now
    /\ call' = Call(token, pathgid, <<>>)
    /\ UNCHANGED <<storevars, uowvars, auxvars>>

\* PUT /api/groups/<g>/members {id, role, active}
update_membership(tbl, mid, role, active) ==
    IF mid \in DOMAIN tbl
    THEN [tbl EXCEPT ![mid].role = role, ![mid].active = active]
    ELSE tbl

MembersPut(token, pathgid, g, mid, new_role, active) ==
    /\ token \in 1..seq.tokens
    /\ LET user == Principal(token, pathgid)
           role == verify_group_access(user.id, g, "user")
       IN
       IF ~RouterOk(user) THEN Reject("members_put", token, user, 403, NOGATE)
       ELSE IF role = NONE THEN Reject("members_put", token, user, 403, role)
       ELSE IF role # "admin" THEN Reject("members_put", token, user, 403, role)
       ELSE IF mid \notin DOMAIN memberships
       THEN Reject("members_put", token, user, 404, role)
       ELSE /\ memberships' = update_membership(memberships, mid, new_role, active)
            /\ sessions' = SessionsAfterResolve(token)
            /\ resp' = Resp("members_put", 200)
            /\ UNCHANGED <<users, groups, suggestions, rehearsals, performances, seq>>
    /\ UNCHANGED now
    /\ call' = Call(token, pathgid, <<g, mid, new_role, active>>)
    /\ UNCHANGED <<storevars, uowvars, auxvars>>

\* a WHERE clause that matches the id alone
membership_of_group_any(tbl, mid, gid) == mid \in DOMAIN tbl

\* ... FROM memberships WHERE id = ? AND group_id = ? (of the SELECT of
\* api_group_members and of the DELETE of delete_membership)
membership_of_group(tbl, mid, gid) == mid \in DOMAIN tbl /\ tbl[mid].group_id = gid

\* DELETE FROM memberships WHERE id = ? AND group_id = ?
delete_membership(tbl, mid, gid) ==
    Drop(tbl, {m \in DOMAIN tbl : m = mid /\ membership_of_group(tbl, m, gid)})

\* a check that lets every member delete any membership
may_delete_any(role, target_user_id, uid) == TRUE

\* not (role != 'admin' and target_user_id != user['id'])
may_delete(role, target_user_id, uid) == role = "admin" \/ target_user_id = uid

\* DELETE /api/groups/<g>/members {userId: target} | {id: mid}
\* (byid = TRUE: the body names the membership id, else the user id)
MembersDelete(token, pathgid, g, byid, key) ==
    /\ token \in 1..seq.tokens
    /\ LET user == Principal(token, pathgid)
           role == verify_group_access(user.id, g, "user")
           mid == IF byid
                  THEN (IF membership_of_group(memberships, key, g)
                        THEN key ELSE NULL)
                  ELSE get_membership(key, g)
           target == IF mid = NULL THEN NULL ELSE memberships[mid].user_id
       IN
       IF ~RouterOk(user) THEN Reject("members_delete", token, user, 403, NOGATE)
       ELSE IF role = NONE THEN Reject("members_delete", token, user, 403, role)
       ELSE IF mid = NULL THEN Reject("members_delete", token, user, 404, role)
       ELSE IF ~may_delete(role, target, user.id)
       THEN Reject("members_delete", token, user, 403, role)
       ELSE IF delete_membership(memberships, mid, g) = memberships
       THEN Reject("members_delete", token, user, 404, role)
       ELSE LET after == delete_membership(memberships, mid, g)
                remaining == get_groups_for_user(after, user.id)
            IN
            /\ memberships' = after
            /\ IF target = user.id
               THEN \E ng \in IF remaining = {} THEN {NULL} ELSE remaining :
                      /\ users' = [users EXCEPT ![user.id].last_group_id = ng]
                      /\ sessions' = [t \in DOMAIN SessionsAfterResolve(token) |->
                            IF SessionsAfterResolve(token)[t].user_id = user.id
                            THEN [SessionsAfterResolve(token)[t] EXCEPT !.group_id = ng]
                            ELSE SessionsAfterResolve(token)[t]]
               ELSE /\ users' = users
                    /\ sessions' = SessionsAfterResolve(token)
            /\ resp' = [Resp("members_delete", 200) EXCEPT !.target = target, !.gid = g]
            /\ UNCHANGED <<groups, suggestions, rehearsals, performances, seq>>
    /\ UNCHANGED now
    /\ call' = Call(token, pathgid, <<g, byid, key>>)
    /\ UNCHANGED <<storevars, uowvars, auxvars>>

\* ------------------------------------------------------------- resources
\* POST /api/suggestions (a body with a title)
CreateSuggestion(token, pathgid) ==
    /\ token \in 1..seq.tokens
    /\ LET user == Principal(token, pathgid)
           role == verify_group_access(user.id, user.group_id, "user")
           id == seq.sug + 1
       IN
       IF ~RouterOk(user) THEN Reject("create_suggestion", token, user, 403, NOGATE)
       ELSE IF role = NONE THEN Reject("create_suggestion", token, user, 403, role)
       ELSE /\ seq.sug < MaxItems
            /\ suggestions' = Put(suggestions, id,
                   [group_id |-> user.group_id, creator_id |-> user.id])
            /\ seq' = [seq EXCEPT !.sug = id]
            /\ sessions' = SessionsAfterResolve(token)
            /\ resp' = TenantResp("create_suggestion", 201, user, role, TRUE,
                                  {Row("suggestion", id, user.group_id)})
            /\ UNCHANGED <<users, groups, memberships, rehearsals, performances>>
    /\ UNCHANGED now
    /\ call' = Call(token, pathgid, <<>>)
    /\ UNCHANGED <<storevars, uowvars, auxvars>>

\* GET /api/suggestions
GetSuggestions(token, pathgid) ==
    /\ token \in 1..seq.tokens
    /\ LET user == Principal(token, pathgid)
           role == verify_group_access(user.id, user.group_id, "user")
       IN
       IF ~RouterOk(user) THEN Reject("get_suggestions", token, user, 403, NOGATE)
       ELSE IF role = NONE THEN Reject("get_suggestions", token, user, 403, role)
       ELSE /\ sessions' = SessionsAfterResolve(token)
            /\ resp' = TenantResp("get_suggestions", 200, user, role, TRUE,
                   {Row("suggestion", i, suggestions[i].group_id) :
                       i \in {x \in DOMAIN suggestions :
                                 /\ suggestions[x].group_id = user.group_id
                                 /\ suggestions[x].creator_id \in DOMAIN users}})
            /\ UNCHANGED <<users, groups, memberships, suggestions, rehearsals,
                           performances, seq>>
    /\ UNCHANGED now
    /\ call' = Call(token, pathgid, <<>>)
    /\ UNCHANGED <<storevars, uowvars, auxvars>>

\* POST /api/suggestions/<sug_id>/to-rehearsal:
\* api_move_suggestion_to_rehearsal_id, then move_suggestion_to_rehearsal(sug_id)
MoveSuggestionToRehearsal(token, pathgid, sug_id) ==
    /\ token \in 1..seq.tokens
    /\ LET user == Principal(token, pathgid)
           role == verify_group_access(user.id, user.group_id, "user")
           new_id == seq.reh + 1
       IN
       IF ~RouterOk(user) THEN Reject("to_rehearsal", token, user, 403, NOGATE)
       ELSE IF role = NONE THEN Reject("to_rehearsal", token, user, 403, role)
       ELSE IF sug_id \notin DOMAIN suggestions
       THEN Reject("to_rehearsal", token, user, 404, role)
       ELSE LET row == suggestions[sug_id] IN
            /\ seq.reh < MaxItems
            /\ rehearsals' = Put(rehearsals, new_id,
                   [group_id |-> row.group_id, creator_id |-> row.creator_id])
            /\ suggestions' = Drop(suggestions,
                   {x \in DOMAIN suggestions :
                       x = sug_id /\ suggestions[x].group_id = row.group_id})
            /\ seq' = [seq EXCEPT !.reh = new_id]
            /\ sessions' = SessionsAfterResolve(token)
            /\ resp' = TenantResp("to_rehearsal",
                   IF row.creator_id \in DOMAIN users THEN 200 ELSE 404,
                   user, role, TRUE,
                   {Row("suggestion", sug_id, row.group_id),
                    Row("rehearsal", new_id, row.group_id)})
            /\ UNCHANGED <<users, groups, memberships, performances>>
    /\ UNCHANGED now
    /\ call' = Call(token, pathgid, <<sug_id>>)
    /\ UNCHANGED <<storevars, uowvars, auxvars>>

\* POST /api/performances (a body with a name and a date)
CreatePerformance(token, pathgid) ==
    /\ token \in 1..seq.tokens
    /\ LET user == Principal(token, pathgid)
           role == verify_group_access(user.id, user.group_id, "user")
           perf_id == seq.perf + 1
       IN
       IF ~RouterOk(user) THEN Reject("create_performance", token, user, 403, NOGATE)
       ELSE IF role = NONE THEN Reject("create_performance", token, user, 403, role)
       ELSE /\ seq.perf < MaxItems
            /\ performances' = Put(performances, perf_id,
                   [group_id |-> user.group_id, creator_id |-> user.id, content |-> 0])
            /\ seq' = [seq EXCEPT !.perf = perf_id]
            /\ sessions' = SessionsAfterResolve(token)
            /\ resp' = TenantResp("create_performance", 201, user, role, TRUE,
                                  {Row("performance", perf_id, user.group_id)})
            /\ UNCHANGED <<users, groups, memberships, suggestions, rehearsals>>
    /\ UNCHANGED now
    /\ call' = Call(token, pathgid, <<>>)
    /\ UNCHANGED <<storevars, uowvars, auxvars>>

\* PUT /api/performances/<perf_id> (a body with a name and a date): the UPDATE
\* is keyed by the principal's group and, unless the user's global role is
\* admin or moderator, by the creator
UpdatePerformanceId(token, pathgid, perf_id, content) ==
    /\ token \in 1..seq.tokens
    /\ LET user == Principal(token, pathgid)
           hit == {x \in DOMAIN performances :
                     /\ x = perf_id
                     /\ performances[x].group_id = user.group_id
                     /\ (user.role \in {"admin", "moderator"}
                           \/ performances[x].creator_id = user.id)}
       IN
       IF ~RouterOk(user) THEN Reject("update_performance", token, user, 403, NOGATE)
       ELSE IF hit = {} THEN Reject("update_performance", token, user, 404, NOGATE)
       ELSE /\ performances' = [x \in DOMAIN performances |->
                   IF x \in hit THEN [performances[x] EXCEPT !.content = content]
                   ELSE performances[x]]
            /\ sessions' = SessionsAfterResolve(token)
            /\ resp' = TenantResp("update_performance", 200, user, NOGATE, TRUE,
                   {Row("performance", x, performances[x].group_id) : x \in hit})
            /\ UNCHANGED <<users, groups, memberships, suggestions, rehearsals, seq>>
    /\ UNCHANGED now
    /\ call' = Call(token, pathgid, <<perf_id, content>>)
    /\ UNCHANGED <<storevars, uowvars, auxvars>>

\* DELETE /api/performances/<perf_id>
DeletePerformanceId(token, pathgid, perf_id) ==
    /\ token \in 1..seq.tokens
    /\ LET user == Principal(token, pathgid)
           role == verify_group_access(user.id, user.group_id, "user")
           hit == {x \in DOMAIN performances :
                     /\ x = perf_id
                     /\ performances[x].group_id = user.group_id
                     /\ (role \in {"admin", "moderator"}
                           \/ performances[x].creator_id = user.id)}
       IN
       IF ~RouterOk(user) THEN Reject("delete_performance", token, user, 403, NOGATE)
       ELSE IF role = NONE THEN Reject("delete_performance", token, user, 403, role)
       ELSE IF hit = {} THEN Reject("delete_performance", token, user, 404, role)
       ELSE /\ performances' = Drop(performances, hit)
            /\ sessions' = SessionsAfterResolve(token)
            /\ resp' = TenantResp("delete_performance", 200, user, role, TRUE,
                   {Row("performance", x, performances[x].group_id) : x \in hit})
            /\ UNCHANGED <<users, groups, memberships, suggestions, rehearsals, seq>>
    /\ UNCHANGED now
    /\ call' = Call(token, pathgid, <<perf_id>>)
    /\ UNCHANGED <<storevars, uowvars, auxvars>>

\* what a request line can carry
PathGids == GroupIds \cup {NULL}
ItemIds == 1..MaxItems

\* Spec: registration, context, groups and memberships
Next ==
    \/ Register
    \/ \E t \in Tokens, g \in GroupIds : SetContext(t, NULL, g)
    \/ \E t \in Tokens : CreateGroup(t, NULL)
    \/ \E t \in Tokens, c \in 1..MaxCodes : JoinGroup(t, NULL, c)
    \/ \E t \in Tokens, pg \in PathGids : RenewGroupCode(t, pg)
    \/ \E t \in Tokens, g \in GroupIds, mid \in 1..MaxMemberships,
          r \in Roles, a \in BOOLEAN : MembersPut(t, NULL, g, mid, r, a)
    \/ \E t \in Tokens, g \in GroupIds, byid \in BOOLEAN,
          key \in 1..MaxMemberships : MembersDelete(t, NULL, g, byid, key)

vars == <<users, groups, memberships, sessions, suggestions, rehearsals,
          performances, seq, now, resp, proc, lock, issued, revoked, backend,
          uow, committed, wr, req, usernames, gatecall, reg, call, boot,
          conns, votes>>

Spec == Init /\ [][Next]_vars

\* SpecRes: registration, login, group creation and the resource handlers,
\* with and without a group id in the path
NextRes ==
    \/ Register
    \/ \E uid \in UserIds : Login(uid)
    \/ \E t \in Tokens, pg \in PathGids : CreateGroup(t, pg)
    \/ \E t \in Tokens, pg \in PathGids : CreateSuggestion(t, pg)
    \/ \E t \in Tokens, pg \in PathGids : GetSuggestions(t, pg)
    \/ \E t \in Tokens, pg \in PathGids, i \in ItemIds :
          MoveSuggestionToRehearsal(t, pg, i)
    \/ \E t \in Tokens, pg \in PathGids : CreatePerformance(t, pg)
    \/ \E t \in Tokens, pg \in PathGids, i \in ItemIds, c \in Contents :
          UpdatePerformanceId(t, pg, i, c)
    \/ \E t \in Tokens, pg \in PathGids, i \in ItemIds :
          DeletePerformanceId(t, pg, i)

SpecRes == Init /\ [][NextRes]_vars

\* ------------------------------------------------- tenant-scoping claims
\* C1: tenant isolation.  A request by a user who holds active memberships
\* only in other groups neither reads nor writes a resource row of a group
\* in which that user holds none.
TenantIsolation ==
    \A r \in resp.rows : resp.mem # {} => r.gid \in resp.mem

\* C2: the gate is mandatory.  A request executes a statement on a resource
\* table only after verify_group_access returned a role for the request's
\* resolved group.
GateMandatory ==
    resp.stmt => resp.gate \in Roles

\* C3: a user without an active membership in group G is denied every
\* tenant-scoped operation on G: a tenant-scoped request that was answered
\* with success resolved to a group in which its actor was an active member.
NoMembershipNoAccess ==
    (resp.actor # NULL /\ resp.status < 400) => resp.gid \in resp.mem

\* C4: session-tenant invariant.  In every reachable state a session whose
\* group id is non-null belongs to a user holding an active membership in
\* that group.
SessionTenantInvariant ==
    \A t \in DOMAIN sessions :
        sessions[t].group_id # NULL =>
            IsActiveMember(sessions[t].user_id, sessions[t].group_id)

\* C5: leave clears context.  Once a user's membership in a group has been
\* deleted, no session of that user is bound to that group and the user's
\* last_group_id does not point to it.
LeaveClearsContext ==
    (resp.op = "members_delete" /\ resp.status = 200) =>
        /\ \A t \in DOMAIN sessions :
              sessions[t].user_id = resp.target => sessions[t].group_id # resp.gid
        /\ users[resp.target].last_group_id # resp.gid

\* ------------------------------------------------------- the session store
\* Each caller opens its own connection.  The first statement of
\* get_user_by_session and of delete_session is a DELETE, which takes the
\* database write lock (busy_timeout makes the others wait); commit gives it
\* back.  int(time.time()) is read when a statement's arguments are built,
\* before the statement waits for the lock.
InFlight(q, token) ==
    proc[q].pc \in {"begun", "found"} /\ proc[q].token = token

InitSession ==
    /\ InitFresh
    /\ memberships = EmptyTable
    /\ sessions = EmptyTable
    /\ suggestions = EmptyTable
    /\ rehearsals = EmptyTable
    /\ performances = EmptyTable
    /\ now = 0
    /\ resp = Resp("init", 0)
    /\ call = NoCall
    /\ InitIdle

\* time passes
Tick ==
    /\ now < MaxTime
    /\ now' = now + 1
    /\ UNCHANGED <<users, groups, memberships, sessions, suggestions, rehearsals,
                   performances, seq, resp, call, storevars, uowvars, auxvars>>

\* generate_session(user_id, group_id, duration_seconds)
Issue(uid, gid, duration) ==
    /\ lock = NULL
    /\ seq.tokens < MaxSessions
    /\ uid \in DOMAIN users
    /\ LET tok == seq.tokens + 1 IN
       /\ sessions' = generate_session(sessions, tok, uid, gid, duration)
       /\ issued' = Put(issued, tok, duration)
       /\ seq' = [seq EXCEPT !.tokens = tok]
    /\ UNCHANGED <<users, groups, memberships, suggestions, rehearsals,
                   performances, now, resp, call, proc, lock, revoked, uowvars, auxvars>>

\* get_user_by_session(token) is entered: the connection is opened and the
\* purge's argument int(time.time()) is read.  Kept for the claims: e0, the
\* expiry stored at that moment; late, the token's revocation had completed;
\* conc, another call for the same token is under way at some point of this one.
ResolveBegin(p, token) ==
    /\ proc[p].pc \in {"idle", "done"}
    /\ token \in 1..seq.tokens
    /\ proc' = [q \in Procs |->
          IF q = p
          THEN [pc |-> "begun", token |-> token, t0 |-> now,
                e0 |-> IF token \in DOMAIN sessions
                       THEN sessions[token].expires_at ELSE NULL,
                late |-> token \in revoked,
                conc |-> \E r \in Procs \ {p} : InFlight(r, token)]
          ELSE IF InFlight(q, token) THEN [proc[q] EXCEPT !.conc = TRUE]
          ELSE proc[q]]
    /\ UNCHANGED <<dbvars, resp, call, lock, issued, revoked, uowvars, auxvars>>

\* the purge and the lookup; a miss commits and returns None.  Kept for the
\* claims: expired, the token's row had an expiry at or before the time read.
ResolveLookup(p) ==
    /\ proc[p].pc = "begun"
    /\ lock = NULL
    /\ LET token == proc[p].token
           live == PurgeExpired(sessions, proc[p].t0)
           expired == token \in DOMAIN sessions
                      /\ sessions[token].expires_at <= proc[p].t0
       IN
       /\ sessions' = live
       /\ IF token \in DOMAIN live
          THEN /\ lock' = p
               /\ proc' = [proc EXCEPT ![p] =
                     [pc |-> "found", token |-> token, t0 |-> proc[p].t0,
                      e0 |-> proc[p].e0, late |-> proc[p].late,
                      conc |-> proc[p].conc, expired |-> expired,
                      user_id |-> live[token].user_id,
                      group_id |-> live[token].group_id]]
          ELSE /\ lock' = NULL
               /\ proc' = [proc EXCEPT ![p] =
                     [pc |-> "done", token |-> token, t0 |-> proc[p].t0,
                      e0 |-> proc[p].e0, late |-> proc[p].late,
                      conc |-> proc[p].conc, expired |-> expired,
                      res |-> NULL, t1 |-> NULL, new_expires |-> NULL,
                      gone |-> token \in revoked]]
    /\ UNCHANGED <<users, groups, memberships, suggestions, rehearsals,
                   performances, seq, now, resp, call, issued, revoked, uowvars, auxvars>>

\* new_expires = int(time.time()) + 7 * 24 * 3600, the UPDATE, the lookup of
\* the user, the commit and the return.  Kept for the claims: t1, the time
\* read; gone, the token's revocation had completed when the call returned.
ResolveSlide(p) ==
    /\ proc[p].pc = "found"
    /\ lock = p
    /\ LET token == proc[p].token
           new_expires == now + WINDOW
       IN
       /\ sessions' = [x \in DOMAIN sessions |->
             IF x = token THEN [sessions[x] EXCEPT !.expires_at = new_expires]
             ELSE sessions[x]]
       /\ proc' = [proc EXCEPT ![p] =
             [pc |-> "done", token |-> token, t0 |-> proc[p].t0,
              e0 |-> proc[p].e0, late |-> proc[p].late, conc |-> proc[p].conc,
              expired |-> proc[p].expired,
              res |-> IF proc[p].user_id \in DOMAIN users
                      THEN proc[p].user_id ELSE NULL,
              t1 |-> now, new_expires |-> new_expires,
              gone |-> token \in revoked]]
       /\ lock' = NULL
    /\ UNCHANGED <<users, groups, memberships, suggestions, rehearsals,
                   performances, seq, now, resp, call, issued, revoked, uowvars, auxvars>>

\* a delete_session that leaves the row in place
delete_session_kept(tbl, token) == tbl

\* DELETE FROM sessions WHERE token = ?
delete_session(tbl, token) == Drop(tbl, {token})

\* delete_session(token): the DELETE and the commit
Revoke(token) ==
    /\ lock = NULL
    /\ token \in 1..seq.tokens
    /\ sessions' = delete_session(sessions, token)
    /\ revoked' = revoked \cup {token}
    /\ UNCHANGED <<users, groups, memberships, suggestions, rehearsals,
                   performances, seq, now, resp, call, proc, lock, issued, uowvars, auxvars>>

NextSession ==
    \/ Tick
    \/ \E uid \in UserIds, d \in Durations : Issue(uid, NULL, d)
    \/ \E p \in Procs, t \in Tokens : ResolveBegin(p, t)
    \/ \E p \in Procs : ResolveLookup(p)
    \/ \E p \in Procs : ResolveSlide(p)
    \/ \E t \in Tokens : Revoke(t)

SpecSession == InitSession /\ [][NextSession]_vars

\* a finished call of get_user_by_session
Resolved(p) == proc[p].pc = "done"

\* C6: revocation is immediate and total.  A token whose delete_session has
\* completed has no row in the store, a resolve entered after that returns
\* no identity, and no resolve returns an identity for a token whose
\* revocation has completed, whenever it was entered.
RevocationTotal ==
    /\ \A t \in revoked : t \notin DOMAIN sessions
    /\ \A p \in Procs :
          Resolved(p) => /\ proc[p].late => proc[p].res = NULL
                         /\ proc[p].res # NULL => ~proc[p].gone

\* a resolve of a token that was issued and then revoked has finished, one
\* entered after the revocation and one entered before it
RevocationTotalWitness ==
    /\ \E p \in Procs : Resolved(p) /\ proc[p].late /\ proc[p].e0 = NULL
    /\ \E p \in Procs : Resolved(p) /\ ~proc[p].late /\ proc[p].gone
                         /\ proc[p].e0 # NULL

\* C7: a resolve that reads a time at or after the expiry stored for its
\* token returns absent, and the token's row is not in the store afterwards.
ExpiredResolvesAbsent ==
    \A p \in Procs :
        (Resolved(p) /\ proc[p].expired) =>
            /\ proc[p].res = NULL
            /\ proc[p].token \notin DOMAIN sessions

\* a resolve has finished that read exactly the expiry stored for its token
ExpiredResolvesAbsentWitness ==
    \E p \in Procs :
        Resolved(p) /\ proc[p].expired /\ proc[p].e0 = proc[p].t0

\* C8: sliding expiration.  A successful resolve stores as expiry the time
\* it read plus the window the session was issued with.
SlidingExpiration ==
    \A p \in Procs :
        (Resolved(p) /\ proc[p].res # NULL) =>
            proc[p].new_expires = proc[p].t1 + issued[proc[p].token]

\* C9: two concurrent resolves of one live token both return an identity,
\* and the expiry stored once both have finished is not earlier than the one
\* stored before either was entered.
ExtendNeverShorten ==
    \A p \in Procs, q \in Procs :
        (/\ p # q
         /\ Resolved(p) /\ Resolved(q)
         /\ proc[p].token = proc[q].token
         /\ proc[p].conc /\ proc[q].conc
         /\ proc[p].e0 > proc[p].t0 /\ proc[q].e0 > proc[q].t0
         /\ proc[p].token \notin revoked)
        => /\ proc[p].res # NULL /\ proc[q].res # NULL
           /\ proc[p].token \in DOMAIN sessions
           /\ sessions[proc[p].token].expires_at >= Min({proc[p].e0, proc[q].e0})

\* ---------------------------------------------------------- units of work
\* A unit of work is the body of one "with get_db_connection() as conn".
\* Its statements, in order: "read" and "write" are execute_write of a SELECT
\* and of an UPDATE or DELETE, "insert" is execute_write of an INSERT,
\* "commit" is safe_commit(conn) called by the body, "io" is a statement of
\* the body that does not touch the database (a file is written).
Backends == {"sqlite", "postgres"}

Units == {"generate_session", "delete_session", "get_user_by_session",
          "api_post_rehearsal_partition"}

Program(unit) ==
    CASE unit = "generate_session" -> <<"insert", "commit">>
      [] unit = "delete_session" -> <<"write", "commit">>
      [] unit = "get_user_by_session" -> <<"write", "read", "write", "read", "commit">>
      [] unit = "api_post_rehearsal_partition" ->
            <<"read", "insert", "write", "commit", "io", "read", "insert", "commit">>

\* _using_postgres
using_postgres == backend = "postgres"

\* execute_write on the client/server backend follows every INSERT with
\* SELECT LASTVAL() and target.fetchone()[0]; the connection's cursors are
\* RealDictCursor, whose rows have no index 0, so the INSERT never returns
InsertRaises(stmt) == using_postgres /\ stmt = "insert"

\* execute_write and safe_commit call conn.rollback() themselves only on the
\* client/server backend and only around the statement or the commit
RollsBackItself(stmt) == using_postgres /\ stmt # "io"

InitUow ==
    /\ InitFresh
    /\ memberships = EmptyTable
    /\ sessions = EmptyTable
    /\ suggestions = EmptyTable
    /\ rehearsals = EmptyTable
    /\ performances = EmptyTable
    /\ now = 0
    /\ resp = Resp("init", 0)
    /\ call = NoCall
    /\ proc = [p \in Procs |-> [pc |-> "idle"]]
    /\ lock = NULL
    /\ issued = EmptyTable
    /\ revoked = {}
    /\ backend \in Backends
    /\ uow = [state |-> "idle", n |-> 0]
    /\ committed = {}
    /\ InitAux

\* get_db_connection: the connection is opened and the body entered
UowBegin(unit) ==
    /\ uow.state \in {"idle", "ended"}
    /\ uow.n < MaxUnits
    /\ uow' = [state |-> "open", unit |-> unit, n |-> uow.n + 1, pc |-> 1,
               pending |-> {}, commits |-> 0, rollbacks |-> 0]
    /\ UNCHANGED <<dbvars, resp, call, storevars, auxvars, backend, committed>>

\* the statement at pc returns
UowStep ==
    /\ uow.state = "open"
    /\ uow.pc <= Len(Program(uow.unit))
    /\ LET stmt == Program(uow.unit)[uow.pc] IN
       /\ ~InsertRaises(stmt)
       /\ IF stmt = "commit"
          THEN /\ committed' = committed \cup uow.pending
               /\ uow' = [uow EXCEPT !.pc = @ + 1, !.pending = {},
                                     !.commits = @ + 1]
          ELSE /\ committed' = committed
               /\ uow' = [uow EXCEPT !.pc = @ + 1,
                             !.pending = IF stmt \in {"insert", "write"}
                                         THEN @ \cup {[n |-> uow.n, pc |-> uow.pc]}
                                         ELSE @]
    /\ UNCHANGED <<dbvars, resp, call, storevars, auxvars, backend>>

\* the statement at pc raises; the generator's finally closes the connection,
\* which discards what is pending, and the error leaves the with block
UowRaise ==
    /\ uow.state = "open"
    /\ uow.pc <= Len(Program(uow.unit))
    /\ LET stmt == Program(uow.unit)[uow.pc] IN
       uow' = [state |-> "ended", unit |-> uow.unit, n |-> uow.n, raised |-> TRUE,
               commits |-> uow.commits,
               rollbacks |-> IF RollsBackItself(stmt) /\ ~InsertRaises(stmt)
                             THEN uow.rollbacks + 1 ELSE uow.rollbacks]
    /\ UNCHANGED <<dbvars, resp, call, storevars, auxvars, backend, committed>>

\* the body ends: safe_commit(conn) after the yield, then conn.close()
UowExit ==
    /\ uow.state = "open"
    /\ uow.pc = Len(Program(uow.unit)) + 1
    /\ committed' = committed \cup uow.pending
    /\ uow' = [state |-> "ended", unit |-> uow.unit, n |-> uow.n, raised |-> FALSE,
               commits |-> uow.commits + 1, rollbacks |-> uow.rollbacks]
    /\ UNCHANGED <<dbvars, resp, call, storevars, auxvars, backend>>

NextUow ==
    \/ \E unit \in Units : UowBegin(unit)
    \/ UowStep
    \/ UowRaise
    \/ UowExit

SpecUow == InitUow /\ [][NextUow]_vars

\* the writes of the unit of work that has just ended
WritesOf(unit, n) ==
    {[n |-> n, pc |-> i] : i \in {j \in 1..Len(Program(unit)) :
                                     Program(unit)[j] \in {"insert", "write"}}}

\* C10: a unit of work ends in commit or in rollback: one that ended without
\* an error has all its writes committed, and one in which a statement raised
\* has none of its writes visible to other connections.
UnitOfWorkAtomic ==
    uow.state = "ended" =>
        IF uow.raised
        THEN WritesOf(uow.unit, uow.n) \cap committed = {}
        ELSE WritesOf(uow.unit, uow.n) \subseteq committed

\* ------------------------------------------------------- execute_write
\* One call of execute_write(target, sql, params) by a request thread.
\* Times are in milliseconds.
INITIAL_DELAY == 50

MAX_ATTEMPTS == 5

\* sqlite3.connect(..., timeout=30) and PRAGMA busy_timeout=30000: how long
\* target.execute waits for the write lock before it raises
\* OperationalError('database is locked')
BUSY_TIMEOUT == 30000

\* what target.execute does on one attempt: it returns, or raises
\*   "locked"       OperationalError whose message holds 'database is locked'
\*   "operational"  OperationalError with another message
\*   "integrity"    IntegrityError
Outcomes == {"ok", "locked", "operational", "integrity"}

Statements == {"read", "write", "insert"}

\* every error but this one leaves execute_write at once
is_locked_any(outcome) == outcome # "ok"

\* isinstance(e, sqlite3.OperationalError) and "database is locked" in str(e).lower()
is_locked(outcome) == outcome = "locked"

next_delay_linear(delay) == delay + INITIAL_DELAY

\* delay *= 2
next_delay(delay) == delay * 2

RECURSIVE SumSeq(_)
SumSeq(q) == IF q = <<>> THEN 0 ELSE Head(q) + SumSeq(Tail(q))

InitWrite ==
    /\ InitFresh
    /\ memberships = EmptyTable
    /\ sessions = EmptyTable
    /\ suggestions = EmptyTable
    /\ rehearsals = EmptyTable
    /\ performances = EmptyTable
    /\ now = 0
    /\ resp = Resp("init", 0)
    /\ call = NoCall
    /\ proc = [p \in Procs |-> [pc |-> "idle"]]
    /\ lock = NULL
    /\ issued = EmptyTable
    /\ revoked = {}
    /\ backend \in Backends
    /\ uow = [state |-> "idle", n |-> 0]
    /\ committed = {}
    /\ InitAux

\* execute_write is entered by thread p: delay = 0.05, attempt = 0
WriteCall(p, stmt) ==
    /\ wr.state \in {"idle", "returned", "raised"}
    /\ wr.n < MaxStatements
    /\ wr' = [state |-> "trying", n |-> wr.n + 1, thread |-> p, stmt |-> stmt,
              attempt |-> 0, delay |-> INITIAL_DELAY, tries |-> <<>>,
              delays |-> <<>>, waited |-> 0, by |-> {}]
    /\ UNCHANGED <<dbvars, resp, call, storevars, uowvars, racevars, gatevars, regvars, extvars>>

\* target.execute(sql, params) is run once and returns or raises.  waiting is
\* the time a lock failure took to be raised: none when the engine refuses at
\* once, BUSY_TIMEOUT when the busy handler gave up.
WriteAttempt(outcome, waiting) ==
    /\ wr.state = "trying"
    /\ waiting # 0 => (outcome = "locked" /\ ~using_postgres)
    /\ LET tries == Append(wr.tries, outcome)
           seen == [wr EXCEPT !.tries = tries, !.waited = @ + waiting,
                              !.by = @ \cup {wr.thread}]
       IN
       IF using_postgres
       THEN wr' = [seen EXCEPT !.state =
                      IF outcome = "ok" /\ ~InsertRaises(wr.stmt)
                      THEN "returned" ELSE "raised"]
       ELSE IF outcome = "ok" THEN wr' = [seen EXCEPT !.state = "returned"]
       ELSE IF outcome \in {"locked", "operational"} /\ is_locked(outcome)
               /\ wr.attempt < MAX_ATTEMPTS - 1
       THEN wr' = [seen EXCEPT !.state = "sleeping"]
       ELSE wr' = [seen EXCEPT !.state = "raised"]
    /\ UNCHANGED <<dbvars, resp, call, storevars, uowvars, racevars, gatevars, regvars, extvars>>

\* time.sleep(delay); delay *= 2; continue
WriteSleep ==
    /\ wr.state = "sleeping"
    /\ wr' = [wr EXCEPT !.state = "trying", !.attempt = @ + 1,
                        !.delays = Append(@, wr.delay),
                        !.delay = next_delay(wr.delay),
                        !.by = @ \cup {wr.thread}]
    /\ UNCHANGED <<dbvars, resp, call, storevars, uowvars, racevars, gatevars, regvars, extvars>>

NextWrite ==
    \/ \E p \in Procs, stmt \in Statements : WriteCall(p, stmt)
    \/ \E outcome \in Outcomes, waiting \in {0, BUSY_TIMEOUT} :
          WriteAttempt(outcome, waiting)
    \/ WriteSleep

SpecWrite == InitWrite /\ [][NextWrite]_vars

WriteDone == wr.state \in {"returned", "raised"}

\* C11: on the embedded backend a statement failing on a locked database is
\* attempted again after 50 ms, 100 ms, 200 ms, ..., at most 5 attempts in
\* all, and the fifth lock failure is raised; on the client/server backend a
\* statement is attempted exactly once and never slept on.
RetryOnLock ==
    wr.state # "idle" =>
        IF using_postgres
        THEN /\ Len(wr.tries) <= 1
             /\ wr.delays = <<>>
             /\ WriteDone => Len(wr.tries) = 1
        ELSE /\ Len(wr.tries) <= 5
             /\ \A i \in DOMAIN wr.delays : wr.delays[i] = 50 * 2 ^ (i - 1)
             /\ WriteDone => Len(wr.delays) = Len(wr.tries) - 1
             /\ (wr.state = "raised" /\ wr.tries[Len(wr.tries)] = "locked")
                   => Len(wr.tries) = 5
             /\ (wr.state = "sleeping") => wr.tries[Len(wr.tries)] = "locked"

\* on the embedded backend five attempts have failed on the lock and the
\* failure has been raised
RetryOnLockWitness ==
    /\ ~using_postgres
    /\ wr.state = "raised"
    /\ wr.tries = <<"locked", "locked", "locked", "locked", "locked">>
    /\ wr.delays = <<50, 100, 200, 400>>

\* C12: an attempt is followed by another one only when it failed on the
\* lock, so any other error is raised after exactly one attempt; every
\* attempt and every sleep runs on the thread that called execute_write.
NonLockNotRetried ==
    wr.state # "idle" =>
        /\ \A i \in 1..(Len(wr.tries) - 1) : wr.tries[i] = "locked"
        /\ (wr.tries # <<>> /\ wr.tries[Len(wr.tries)] \in {"operational", "integrity"})
              => wr.state = "raised"
        /\ wr.by \subseteq {wr.thread}

\* an integrity error has been raised by the second attempt, the first one
\* having failed on the lock
NonLockNotRetriedWitness ==
    /\ ~using_postgres
    /\ wr.state = "raised"
    /\ wr.tries = <<"locked", "integrity">>
    /\ wr.by = {wr.thread}

\* C13: a statement that gives up on the lock has blocked its request for
\* about 1.5 seconds (between 1 and 2 seconds), the sum of its backoff delays.
BackoffTotal ==
    (~using_postgres /\ wr.state = "raised" /\ Len(wr.tries) = MAX_ATTEMPTS
        /\ wr.tries[MAX_ATTEMPTS] = "locked")
    => LET blocked == SumSeq(wr.delays) + wr.waited
       IN 1000 <= blocked /\ blocked <= 2000

\* ------------------------------------------------------ the gate alone
\* verify_group_access(user_id, group_id, required_role) as a function of its
\* arguments and of the membership row it finds.  memberships.role is a TEXT
\* column and required_role a str: besides the three roles, both are drawn
\* from names the table of levels does not hold.
RoleNames == Roles \cup {"owner", ""}

\* what the memberships table can hold for one user and group 1
MembershipRows(uid) ==
    {EmptyTable} \cup
    {Put(EmptyTable, uid, [user_id |-> uid, group_id |-> 1, role |-> r, active |-> a]) :
        r \in RoleNames, a \in BOOLEAN}

InitGate ==
    /\ users = [u \in {1, 2} |-> [role |-> "user", last_group_id |-> NULL]]
    /\ groups = Put(EmptyTable, 1, [owner_id |-> 1, code |-> 1])
    /\ \E m1 \in MembershipRows(1), m2 \in MembershipRows(2) :
          memberships = [x \in DOMAIN m1 \cup DOMAIN m2 |->
                            IF x \in DOMAIN m1 THEN m1[x] ELSE m2[x]]
    /\ seq = [users |-> 2, groups |-> 1, memberships |-> 2, tokens |-> 0,
              codes |-> 1, sug |-> 0, reh |-> 0, perf |-> 0]
    /\ sessions = EmptyTable
    /\ suggestions = EmptyTable
    /\ rehearsals = EmptyTable
    /\ performances = EmptyTable
    /\ now = 0
    /\ resp = Resp("init", 0)
    /\ call = NoCall
    /\ proc = [p \in Procs |-> [pc |-> "idle"]]
    /\ lock = NULL
    /\ issued = EmptyTable
    /\ revoked = {}
    /\ backend = "sqlite"
    /\ uow = [state |-> "idle", n |-> 0]
    /\ committed = {}
    /\ wr = [state |-> "idle", n |-> 0]
    /\ req = [p \in Procs |-> [pc |-> "idle"]]
    /\ usernames = [u \in {1, 2} |-> IF u = 1 THEN "admin" ELSE "amy"]
    /\ gatecall = [state |-> "idle"]
    /\ reg = [state |-> "idle", n |-> 0]
    /\ InitExt

\* one call of verify_group_access
GateCheck(uid, gid, required_role) ==
    /\ gatecall' = [state |-> "done", uid |-> uid, gid |-> gid,
                    required_role |-> required_role,
                    result |-> verify_group_access(uid, gid, required_role)]
    /\ UNCHANGED <<dbvars, resp, call, storevars, uowvars, wrvars, racevars, regvars, extvars>>

NextGate ==
    \E uid \in UserIds, gid \in {NULL, 1}, r \in RoleNames : GateCheck(uid, gid, r)

SpecGate == InitGate /\ [][NextGate]_vars

\* the role of uid's active membership in gid, NONE without one
ActiveRole(uid, gid) ==
    LET m == get_membership(uid, gid) IN
    IF gid = NULL \/ m = NULL THEN NONE
    ELSE IF memberships[m].active THEN memberships[m].role ELSE NONE

\* C19: role monotonicity.  With user < moderator < admin, when the gate let
\* an active member holding R2 through for some required role, it lets every
\* active member of the same group holding R1 >= R2 through for the same
\* required role.
RoleMonotone ==
    LET geq == {<<"user", "user">>, <<"moderator", "user">>, <<"admin", "user">>,
                <<"moderator", "moderator">>, <<"admin", "moderator">>,
                <<"admin", "admin">>}
    IN (gatecall.state = "done" /\ gatecall.result # NONE) =>
          \A u1 \in UserIds :
              <<ActiveRole(u1, gatecall.gid), ActiveRole(gatecall.uid, gatecall.gid)>>
                  \in geq
              => verify_group_access(u1, gatecall.gid, gatecall.required_role) # NONE

\* the gate has let a moderator through where moderator is required, and the
\* other user is an active admin of the same group
RoleMonotoneWitness ==
    /\ gatecall.state = "done"
    /\ gatecall.result = "moderator"
    /\ gatecall.required_role = "moderator"
    /\ \E u1 \in UserIds \ {gatecall.uid} : ActiveRole(u1, gatecall.gid) = "admin"

\* C20: any ambiguity resolves to denial.  A call of the gate with no group
\* id, with a membership lookup that finds nothing, or with a membership role
\* or a required role outside {user, moderator, admin} returns no role.
AmbiguityDenied ==
    (/\ gatecall.state = "done"
     /\ \/ gatecall.gid = NULL
        \/ get_membership(gatecall.uid, gatecall.gid) = NULL
        \/ memberships[get_membership(gatecall.uid, gatecall.gid)].role \notin Roles
        \/ gatecall.required_role \notin Roles)
    => gatecall.result = NONE

\* ------------------------------------------- accounts and memberships
\* Request threads of the ThreadingHTTPServer running api_register,
\* api_join_group, api_group_members (POST) and api_group_invite against the
\* embedded backend.  Each handler reads with SELECTs that take no lock and
\* then writes in one transaction; the engine runs write transactions one
\* after the other and shows their rows to the others at commit, so a write
\* transaction is one step.
Names == {"amy@x", "Amy@x", "ADMIN"}

\* a str.lower() that leaves its argument as it is
py_lower_identity(name) == name

\* str.lower()
py_lower(name) ==
    CASE name = "Amy@x" -> "amy@x"
      [] name = "ADMIN" -> "admin"
      [] OTHER -> name

\* LOWER() of the database
sql_lower(name) ==
    CASE name = "Amy@x" -> "amy@x"
      [] name = "ADMIN" -> "admin"
      [] OTHER -> name

\* '@' in email
HasAt(name) == name \in {"amy@x", "Amy@x"}

\* SELECT id FROM users WHERE LOWER(username) = LOWER(?)
user_by_name(name) ==
    LET hit == {u \in DOMAIN usernames : sql_lower(usernames[u]) = sql_lower(name)}
    IN IF hit = {} THEN NULL ELSE Min(hit)

\* users.username TEXT NOT NULL UNIQUE
username_violation(name) == \E u \in DOMAIN usernames : usernames[u] = name

\* a memberships table without its UNIQUE constraint
membership_violation_never(uid, gid) == FALSE

\* memberships: UNIQUE(user_id, group_id)
membership_violation(uid, gid) == get_membership(uid, gid) # NULL

\* an except chain that answers integrity errors as generic failures
api_register_except_generic(exc) ==
    IF exc \in {"sqlite3.OperationalError", "psycopg2.OperationalError",
                "psycopg2.IntegrityError", "RuntimeError"}
    THEN 503 ELSE 500

\* the except clauses of api_register, in order
api_register_except(exc) ==
    IF exc \in {"sqlite3.OperationalError", "psycopg2.OperationalError",
                "psycopg2.IntegrityError", "RuntimeError"}
    THEN 503
    ELSE IF exc = "sqlite3.IntegrityError" THEN 409
    ELSE 500

\* the except clauses of handle_api_request around every other handler
handle_api_request_except(exc) ==
    IF exc = "PermissionError" THEN 403 ELSE 500

\* The state before the requests: the database as init_db made it (user
\* 'admin', group 1), after 'admin' has logged in and created group 2, of
\* which it is the admin member.
InitRace ==
    /\ users = Put(EmptyTable, 1, [role |-> "user", last_group_id |-> NULL])
    /\ usernames = Put(EmptyTable, 1, "admin")
    /\ groups = [g \in {1, 2} |-> [owner_id |-> 1, code |-> g]]
    /\ memberships = create_membership(EmptyTable, 1, 1, 2, "admin")
    /\ sessions = Put(EmptyTable, 1,
                      [user_id |-> 1, group_id |-> NULL, expires_at |-> WINDOW])
    /\ seq = [users |-> 1, groups |-> 2, memberships |-> 1, tokens |-> 1,
              codes |-> 2, sug |-> 0, reh |-> 0, perf |-> 0]
    /\ suggestions = EmptyTable
    /\ rehearsals = EmptyTable
    /\ performances = EmptyTable
    /\ now = 0
    /\ resp = Resp("init", 0)
    /\ call = NoCall
    /\ proc = [p \in Procs |-> [pc |-> "idle"]]
    /\ lock = NULL
    /\ issued = EmptyTable
    /\ revoked = {}
    /\ backend = "sqlite"
    /\ uow = [state |-> "idle", n |-> 0]
    /\ committed = {}
    /\ wr = [state |-> "idle", n |-> 0]
    /\ req = [p \in Procs |-> [pc |-> "idle", n |-> 0]]
    /\ gatecall = [state |-> "idle"]
    /\ reg = [state |-> "idle", n |-> 0]
    /\ InitExt

RECURSIVE Started(_)
Started(ps) ==
    IF ps = {} THEN 0
    ELSE LET p == CHOOSE x \in ps : TRUE IN req[p].n + Started(ps \ {p})

\* thread p is free to take a request
Free(p) ==
    /\ req[p].pc \in {"idle", "done"}
    /\ Started(Procs) < MaxRequests

\* the request of thread p is answered (raw: the name as the body gave it)
Answer(p, op, uid, gid, name, status, via) ==
    [pc |-> "done", n |-> req[p].n + 1, op |-> op, uid |-> uid, gid |-> gid,
     name |-> name, raw |-> name, role |-> "user", status |-> status, via |-> via]

\* the request of thread p goes on to its write at pc
Proceed(p, pc, op, uid, gid, name, role) ==
    [pc |-> pc, n |-> req[p].n + 1, op |-> op, uid |-> uid, gid |-> gid,
     name |-> name, raw |-> name, role |-> role, status |-> 0, via |-> "none"]

\* the write of thread p is answered; via tells what refused it: "username"
\* and "membership" are the UNIQUE constraints of the two tables
Finish(p, status, via) ==
    [req[p] EXCEPT !.pc = "done", !.status = status, !.via = via]

racedb == <<users, usernames, groups, memberships, sessions, seq>>

raceframe == <<suggestions, rehearsals, performances, now, resp, call, storevars,
               uowvars, wrvars, gatevars, regvars, extvars>>

\* api_register up to its INSERT: the name is trimmed and lowered, then looked
\* up, and the role is chosen from SELECT COUNT(*) FROM users; the two SELECTs
\* run before the transaction of the INSERT begins
RegisterBegin(p, name) ==
    /\ Free(p)
    /\ LET username == py_lower(name)
           role == IF DOMAIN users = {} THEN "admin" ELSE "user"
       IN
       req' = [req EXCEPT ![p] =
                 [(IF user_by_name(username) # NULL
                   THEN Answer(p, "register", NULL, 1, username, 409, "check")
                   ELSE Proceed(p, "register_write", "register", NULL, 1, username, role))
                  EXCEPT !.raw = name]]
    /\ UNCHANGED <<racedb, raceframe>>

\* api_register's transaction: INSERT INTO users, INSERT INTO groups when
\* group 1 is missing, INSERT OR IGNORE INTO memberships, UPDATE users SET
\* last_group_id, commit
RegisterWrite(p) ==
    /\ req[p].pc = "register_write"
    /\ IF username_violation(req[p].name)
       THEN /\ req' = [req EXCEPT ![p] =
                         Finish(p, api_register_except("sqlite3.IntegrityError"),
                                "username")]
            /\ UNCHANGED racedb
       ELSE LET uid == seq.users + 1
                role == req[p].role
                mid == seq.memberships + 1
                mkgroup == 1 \notin DOMAIN groups
            IN
            /\ users' = Put(users, uid, [role |-> role, last_group_id |-> 1])
            /\ usernames' = Put(usernames, uid, req[p].name)
            /\ groups' = IF mkgroup
                         THEN Put(groups, 1, [owner_id |-> uid, code |-> NewCode])
                         ELSE groups
            /\ memberships' = IF membership_violation(uid, 1) THEN memberships
                              ELSE create_membership(memberships, mid, uid, 1, role)
            /\ seq' = [seq EXCEPT !.users = uid, !.memberships = mid,
                                  !.groups = IF mkgroup /\ @ < 1 THEN 1 ELSE @,
                                  !.codes = IF mkgroup THEN @ + 1 ELSE @]
            /\ req' = [req EXCEPT ![p].pc = "register_session", ![p].uid = uid]
            /\ UNCHANGED sessions
    /\ UNCHANGED raceframe

\* api_register after its commit: generate_session and the answer
RegisterSession(p) ==
    /\ req[p].pc = "register_session"
    /\ sessions' = generate_session(sessions, seq.tokens + 1, req[p].uid, 1, WINDOW)
    /\ seq' = [seq EXCEPT !.tokens = @ + 1]
    /\ req' = [req EXCEPT ![p] = Finish(p, 200, "none")]
    /\ UNCHANGED <<users, usernames, groups, memberships, raceframe>>

\* api_join_group by user uid up to create_membership
JoinBegin(p, uid, code) ==
    /\ Free(p)
    /\ uid \in DOMAIN users
    /\ LET g == get_group_by_code(code) IN
       req' = [req EXCEPT ![p] =
                 IF g = NULL THEN Answer(p, "join", uid, NULL, "", 404, "check")
                 ELSE IF get_membership(uid, g) # NULL
                 THEN Answer(p, "join", uid, g, "", 409, "check")
                 ELSE Proceed(p, "member_write", "join", uid, g, "", "user")]
    /\ UNCHANGED <<racedb, raceframe>>

\* POST /api/groups/<g>/members {userId: target, role} by actor, up to
\* create_membership
AddMemberBegin(p, actor, g, target, new_role) ==
    /\ Free(p)
    /\ actor \in DOMAIN users
    /\ LET role == verify_group_access(actor, g, "user") IN
       req' = [req EXCEPT ![p] =
                 IF role # "admin" THEN Answer(p, "add_member", target, g, "", 403, "check")
                 ELSE IF target \notin DOMAIN users
                 THEN Answer(p, "add_member", target, g, "", 404, "check")
                 ELSE IF get_membership(target, g) # NULL
                 THEN Answer(p, "add_member", target, g, "", 409, "check")
                 ELSE Proceed(p, "member_write", "add_member", target, g, "", new_role)]
    /\ UNCHANGED <<racedb, raceframe>>

\* api_group_invite by actor up to its write
InviteBegin(p, actor, g, email) ==
    /\ Free(p)
    /\ actor \in DOMAIN users
    /\ LET role == verify_group_access(actor, g, "admin")
           name == py_lower(email)
           uid == user_by_name(name)
       IN
       req' = [req EXCEPT ![p] =
                 [(IF role # "admin" THEN Answer(p, "invite", NULL, g, name, 403, "check")
                   ELSE IF ~HasAt(name) THEN Answer(p, "invite", NULL, g, name, 400, "check")
                   ELSE IF uid = NULL
                   THEN Proceed(p, "invite_write", "invite", NULL, g, name, "user")
                   ELSE IF get_membership(uid, g) # NULL
                   THEN Answer(p, "invite", uid, g, name, 409, "check")
                   ELSE Proceed(p, "member_write", "invite", uid, g, name, "user"))
                  EXCEPT !.raw = email]]
    /\ UNCHANGED <<racedb, raceframe>>

\* create_membership called by api_join_group, api_group_members and
\* api_group_invite: the INSERT, and the IntegrityError it raises through the
\* handler to handle_api_request
MemberWrite(p) ==
    /\ req[p].pc = "member_write"
    /\ IF membership_violation(req[p].uid, req[p].gid)
       THEN /\ req' = [req EXCEPT ![p] =
                         Finish(p, handle_api_request_except("sqlite3.IntegrityError"),
                                "membership")]
            /\ UNCHANGED racedb
       ELSE /\ memberships' = create_membership(memberships, seq.memberships + 1,
                                                req[p].uid, req[p].gid, req[p].role)
            /\ seq' = [seq EXCEPT !.memberships = @ + 1]
            /\ req' = [req EXCEPT ![p] = Finish(p, 201, "none")]
            /\ UNCHANGED <<users, usernames, groups, sessions>>
    /\ UNCHANGED raceframe

\* api_group_invite's transaction for an unknown email: INSERT INTO users,
\* INSERT INTO memberships, commit
InviteWrite(p) ==
    /\ req[p].pc = "invite_write"
    /\ IF username_violation(req[p].name)
       THEN /\ req' = [req EXCEPT ![p] =
                         Finish(p, handle_api_request_except("sqlite3.IntegrityError"),
                                "username")]
            /\ UNCHANGED racedb
       ELSE LET uid == seq.users + 1 IN
            /\ users' = Put(users, uid, [role |-> "user", last_group_id |-> req[p].gid])
            /\ usernames' = Put(usernames, uid, req[p].name)
            /\ memberships' = create_membership(memberships, seq.memberships + 1,
                                                uid, req[p].gid, "user")
            /\ seq' = [seq EXCEPT !.users = uid, !.memberships = @ + 1]
            /\ req' = [req EXCEPT ![p] = [Finish(p, 201, "none") EXCEPT !.uid = uid]]
            /\ UNCHANGED <<groups, sessions>>
    /\ UNCHANGED raceframe

NextRace ==
    \/ \E p \in Procs, name \in Names : RegisterBegin(p, name)
    \/ \E p \in Procs : RegisterWrite(p)
    \/ \E p \in Procs : RegisterSession(p)
    \/ \E p \in Procs, uid \in 1..(MaxRequests + 1), c \in 1..MaxCodes :
          JoinBegin(p, uid, c)
    \/ \E p \in Procs, actor \in 1..(MaxRequests + 1), g \in GroupIds,
          target \in 1..(MaxRequests + 1), r \in Roles :
          AddMemberBegin(p, actor, g, target, r)
    \/ \E p \in Procs, actor \in 1..(MaxRequests + 1), g \in GroupIds,
          email \in Names : InviteBegin(p, actor, g, email)
    \/ \E p \in Procs : MemberWrite(p)
    \/ \E p \in Procs : InviteWrite(p)

SpecRace == InitRace /\ [][NextRace]_vars

\* C14: at most one membership row per (user, group) pair.
OneMembershipPerPair ==
    \A m1 \in DOMAIN memberships, m2 \in DOMAIN memberships :
        (memberships[m1].user_id = memberships[m2].user_id
            /\ memberships[m1].group_id = memberships[m2].group_id) => m1 = m2

\* two requests creating the same membership both passed their lookup; one
\* of them inserted the row and the other was refused by the table
OneMembershipPerPairWitness ==
    \E p \in Procs, q \in Procs :
        /\ req[p].pc = "done" /\ req[q].pc = "done"
        /\ req[p].op = "join" /\ req[q].op = "add_member"
        /\ req[p].uid = req[q].uid /\ req[p].gid = req[q].gid
        /\ req[p].status = 201 /\ req[q].via = "membership"

\* C15: no two user rows have usernames that are equal ignoring case.
UsernamesUniqueNoCase ==
    \A u1 \in DOMAIN usernames, u2 \in DOMAIN usernames :
        sql_lower(usernames[u1]) = sql_lower(usernames[u2]) => u1 = u2

\* a registration and an invitation of names differing only by case both
\* passed their lookup; one created the user and the other was refused
UsernamesUniqueNoCaseWitness ==
    \E p \in Procs, q \in Procs :
        /\ req[p].pc = "done" /\ req[q].pc = "done"
        /\ req[p].op = "register" /\ req[q].op = "invite"
        /\ req[p].name = req[q].name /\ req[p].raw # req[q].raw
        /\ {req[p].via, req[q].via} = {"none", "username"}
        /\ \E u \in DOMAIN usernames : usernames[u] = req[p].name

DuplicateMembershipConflict ==
    \A p \in Procs :
        (/\ req[p].pc = "done"
         /\ req[p].op \in {"join", "add_member", "invite"}
         /\ req[p].via = "membership")
        => req[p].status = 409

\* ------------------------------------------- registration and the storage
\* One call of api_register on either backend, statement by statement, with
\* the failures the storage can answer a statement with.
RegisterProgram ==
    <<"connect", "select_user", "count", "insert_user", "select_group",
      "insert_membership", "update_user", "commit", "generate_session">>

\* the failures of a statement:
\*   "unreachable"     the database cannot be opened or the server is away
\*   "lock_exhausted"  execute_write gave up on 'database is locked'
\*   "unique"          the statement violates a UNIQUE constraint
Faults == {"unreachable", "lock_exhausted", "unique"}

\* a row of the client/server backend that can be indexed by position
count_raises_never == FALSE

\* cur.fetchone()[0] after SELECT COUNT(*): the rows of a RealDictCursor have
\* no index 0
count_raises == using_postgres

\* the failures statement stmt can meet on the backend in use
FaultsOf(stmt) ==
    IF using_postgres
    THEN {"unreachable"} \cup
         (IF stmt \in {"insert_user", "generate_session"} THEN {"unique"} ELSE {})
    ELSE (IF stmt = "connect" THEN {"unreachable"} ELSE {}) \cup
         {"lock_exhausted"} \cup
         (IF stmt \in {"insert_user", "generate_session"} THEN {"unique"} ELSE {})

\* the exceptions a failure is raised as
Raised(stmt, fault) ==
    IF using_postgres
    THEN CASE fault = "unique" -> {"psycopg2.IntegrityError"}
           [] stmt = "connect" -> {"psycopg2.OperationalError", "RuntimeError"}
           [] OTHER -> {"psycopg2.OperationalError"}
    ELSE CASE fault = "unique" -> {"sqlite3.IntegrityError"}
           [] OTHER -> {"sqlite3.OperationalError"}

InitRegErr ==
    /\ InitFresh
    /\ memberships = EmptyTable
    /\ sessions = EmptyTable
    /\ suggestions = EmptyTable
    /\ rehearsals = EmptyTable
    /\ performances = EmptyTable
    /\ now = 0
    /\ resp = Resp("init", 0)
    /\ call = NoCall
    /\ proc = [p \in Procs |-> [pc |-> "idle"]]
    /\ lock = NULL
    /\ issued = EmptyTable
    /\ revoked = {}
    /\ backend \in Backends
    /\ uow = [state |-> "idle", n |-> 0]
    /\ committed = {}
    /\ InitAux

regframe == <<dbvars, resp, call, storevars, uowvars, wrvars, racevars, gatevars,
              extvars>>

\* api_register is entered with a username and a password; taken: a user row
\* holds the username when the lookup runs
RegCall(taken) ==
    /\ reg.state \in {"idle", "done"}
    /\ reg.n < MaxRequests
    /\ reg' = [state |-> "running", n |-> reg.n + 1, pc |-> 1, taken |-> taken,
               fault |-> "none", exc |-> "none", status |-> 0]
    /\ UNCHANGED regframe

\* the statement at pc returns
RegStep ==
    /\ reg.state = "running"
    /\ LET stmt == RegisterProgram[reg.pc] IN
       IF stmt = "select_user" /\ reg.taken
       THEN reg' = [reg EXCEPT !.state = "done", !.status = 409]
       ELSE IF stmt = "count" /\ count_raises
       THEN reg' = [reg EXCEPT !.state = "done", !.exc = "KeyError",
                               !.status = api_register_except("KeyError")]
       ELSE IF stmt \in {"insert_user", "insert_membership"} /\ InsertRaises("insert")
       THEN reg' = [reg EXCEPT !.state = "done", !.exc = "KeyError",
                               !.status = api_register_except("KeyError")]
       ELSE IF reg.pc = Len(RegisterProgram)
       THEN reg' = [reg EXCEPT !.state = "done", !.status = 200]
       ELSE reg' = [reg EXCEPT !.pc = @ + 1]
    /\ UNCHANGED regframe

\* the statement at pc meets a failure, which the except clauses answer
RegRaise(fault, exc) ==
    /\ reg.state = "running"
    /\ fault \in FaultsOf(RegisterProgram[reg.pc])
    /\ exc \in Raised(RegisterProgram[reg.pc], fault)
    /\ reg' = [reg EXCEPT !.state = "done", !.fault = fault, !.exc = exc,
                          !.status = api_register_except(exc)]
    /\ UNCHANGED regframe

Exceptions ==
    {"sqlite3.OperationalError", "sqlite3.IntegrityError",
     "psycopg2.OperationalError", "psycopg2.IntegrityError", "RuntimeError"}

NextRegErr ==
    \/ \E taken \in BOOLEAN : RegCall(taken)
    \/ RegStep
    \/ \E fault \in Faults, exc \in Exceptions : RegRaise(fault, exc)

SpecRegErr == InitRegErr /\ [][NextRegErr]_vars

SessionsAfterRequest_rebind(token, pathgid) ==
    LET live == SessionsAfterResolve(token) IN
    IF token \in DOMAIN live /\ pathgid # NULL
    THEN [live EXCEPT ![token].group_id = pathgid]
    ELSE live

\* handle_api_request: get_user_by_session(session_token) purges and slides;
\* the group id of the path goes into the user dict of this request only
SessionsAfterRequest(token, pathgid) == SessionsAfterResolve(token)

\* GET /api/me (a route of handle_auth: the router asks for no group)
ApiMe(token, pathgid) ==
    /\ token \in 1..seq.tokens
    /\ LET user == Principal(token, pathgid)
           membership_role == verify_group_access(user.id, user.group_id, "user")
       IN
       resp' = IF user.id = NULL THEN Resp("me", 401)
               ELSE IF user.group_id = NULL
               THEN [Resp("me", 200) EXCEPT !.actor = user.id]
               ELSE IF membership_role = NONE THEN Resp("me", 403)
               ELSE TenantResp("me", 200, user, membership_role, FALSE, {})
    /\ sessions' = SessionsAfterRequest(token, pathgid)
    /\ call' = Call(token, pathgid, <<>>)
    /\ UNCHANGED <<users, groups, memberships, suggestions, rehearsals,
                   performances, seq, now>>
    /\ UNCHANGED <<storevars, uowvars, auxvars>>

\* POST /api/logout
Logout(token, pathgid) ==
    /\ token \in 1..seq.tokens
    /\ sessions' = delete_session(SessionsAfterRequest(token, pathgid), token)
    /\ resp' = Resp("logout", 200)
    /\ call' = Call(token, pathgid, <<>>)
    /\ UNCHANGED <<users, groups, memberships, suggestions, rehearsals,
                   performances, seq, now>>
    /\ UNCHANGED <<storevars, uowvars, auxvars>>

NextCtx ==
    \/ Register
    \/ \E t \in Tokens : CreateGroup(t, NULL)
    \/ \E t \in Tokens, c \in 1..MaxCodes : JoinGroup(t, NULL, c)
    \/ \E t \in Tokens, pg \in PathGids : ApiMe(t, pg)
    \/ \E t \in Tokens, pg \in PathGids, g \in GroupIds : SetContext(t, pg, g)
    \/ \E t \in Tokens, pg \in PathGids : GetSuggestions(t, pg)
    \/ \E t \in Tokens, pg \in PathGids, g \in GroupIds, uid \in UserIds :
          MembersDelete(t, pg, g, FALSE, uid)

SpecCtx == Init /\ [][NextCtx]_vars

\* the group ids the session rows hold: every row a step keeps has the group
\* id it had, but for the rows in the set changed
StoredGroupsKept(changed) ==
    \A t \in DOMAIN sessions' \ changed :
        t \in DOMAIN sessions /\ sessions'[t].group_id = sessions[t].group_id

\* C21: the group id of the path overrides the session's group for that
\* request only.  A request that carries one stores a group id in a session
\* row only as the context switch (the groupId of its body, in the row of its
\* own token) or as the deletion of the caller's own membership (in the
\* caller's rows); every other stored group id is kept.
PathOverrideTransient ==
    [][call'.pathgid # NULL =>
         CASE resp'.op = "set_context" /\ resp'.status = 200 ->
                  /\ StoredGroupsKept({call'.token})
                  /\ sessions'[call'.token].group_id = call'.args[1]
           [] resp'.op = "members_delete" /\ resp'.status = 200
                 /\ resp'.target = call'.uid ->
                  StoredGroupsKept({t \in DOMAIN sessions :
                                      sessions[t].user_id = call'.uid})
           [] OTHER -> StoredGroupsKept({})]_vars

\* a listing was answered for the group of the path, which is not the group
\* the session is bound to, and the session is still bound as it was
PathOverrideTransientWitness ==
    /\ resp.op = "get_suggestions"
    /\ resp.status = 200
    /\ call.pathgid # NULL
    /\ call.bound # NULL
    /\ resp.gid = call.pathgid
    /\ call.pathgid # call.bound
    /\ sessions[call.token].group_id = call.bound

\* C22: a logged-in principal with no resolvable group (a session bound to no
\* group, a user without active membership, no group id in the path) is not
\* refused the identity-only operations for lack of a group: its profile, the
\* creation of a group and the joining of a group are not answered 403.
NoGroupIdentityOps ==
    [][(/\ call'.uid # NULL
        /\ call'.bound = NULL
        /\ call'.pathgid = NULL
        /\ get_groups_for_user(memberships, call'.uid) = {}
        /\ resp'.op \in {"me", "create_group", "join_group"})
       => resp'.status # 403]_vars

\* ------------------------------------------------ unauthenticated requests
\* SpecAnon: registration, the clock and resource handlers, with cookies
\* that name a live session, an expired one, one never issued, or none.

\* the handlers ROUTES names, but handle_auth
Handlers ==
    {"handle_context", "handle_groups", "handle_suggestions", "handle_rehearsals",
     "handle_performances", "handle_agenda", "handle_settings", "handle_misc",
     "handle_admin"}

\* the operations of handle_auth
AuthOps == {"register", "login", "logout", "me", "delete_me"}

\* a request to a route of handler with no session cookie (token = NULL) or
\* with a cookie no session was ever issued for: get_user_by_session returns
\* None and handle_api_request raises PermissionError before the handler
Unauthenticated(handler, token, pathgid) ==
    /\ token \in ({NULL} \cup Tokens) \ (1..seq.tokens)
    /\ handler \in Handlers
    /\ LET user == Principal(token, pathgid) IN
       /\ user.id = NULL
       /\ Reject(handler, token, user, 403, NOGATE)
    /\ call' = Call(token, pathgid, <<>>)
    /\ UNCHANGED now
    /\ UNCHANGED <<storevars, uowvars, auxvars>>

NextAnon ==
    \/ Register
    \/ Tick
    \/ \E h \in Handlers, t \in {NULL} \cup Tokens, pg \in PathGids :
          Unauthenticated(h, t, pg)
    \/ \E t \in Tokens, pg \in PathGids : CreateSuggestion(t, pg)
    \/ \E t \in Tokens, pg \in PathGids : GetSuggestions(t, pg)
    \/ \E t \in Tokens, pg \in PathGids : CreatePerformance(t, pg)
    \/ \E t \in Tokens, pg \in PathGids, i \in ItemIds, c \in Contents :
          UpdatePerformanceId(t, pg, i, c)

SpecAnon == Init /\ [][NextAnon]_vars

\* C23: a request whose cookie resolves to no user (no token, an unknown
\* token, an expired token), on a route other than those of handle_auth, is
\* answered 403 before the gate is called and before any statement on a
\* resource table, and leaves the resource tables as they were.
UnauthenticatedRejected ==
    [][(call'.uid = NULL /\ resp'.op \notin AuthOps \cup {"init"}) =>
          /\ resp'.status = 403
          /\ resp'.gate = NOGATE
          /\ ~resp'.stmt
          /\ resp'.rows = {}
          /\ UNCHANGED <<suggestions, rehearsals, performances>>]_vars

\* a performance exists, the session that created it has expired, and an
\* update of that performance sent with the expired cookie was refused
UnauthenticatedRejectedWitness ==
    /\ resp.op = "update_performance"
    /\ resp.status = 403
    /\ call.uid = NULL
    /\ call.token \in 1..seq.tokens
    /\ call.token \notin DOMAIN sessions
    /\ now >= WINDOW
    /\ call.args[1] \in DOMAIN performances

\* ------------------------------------------------- the first registration
\* SpecFirst: registrations on two request threads, on a database init_db has
\* just created (user 'admin' and group 1 seeded) and on one without users.
InitFirst ==
    /\ InitDb
    /\ usernames = [u \in DOMAIN users |-> "admin"]
    /\ resp = Resp("init", 0)
    /\ call = NoCall
    /\ proc = [p \in Procs |-> [pc |-> "idle"]]
    /\ lock = NULL
    /\ issued = EmptyTable
    /\ revoked = {}
    /\ backend = "sqlite"
    /\ uow = [state |-> "idle", n |-> 0]
    /\ committed = {}
    /\ wr = [state |-> "idle", n |-> 0]
    /\ req = [p \in Procs |-> [pc |-> "idle", n |-> 0]]
    /\ gatecall = [state |-> "idle"]
    /\ reg = [state |-> "idle", n |-> 0]
    /\ InitExt

NextFirst ==
    \/ \E p \in Procs, name \in Names : RegisterBegin(p, name)
    \/ \E p \in Procs : RegisterWrite(p)
    \/ \E p \in Procs : RegisterSession(p)

SpecFirst == InitFirst /\ [][NextFirst]_vars

\* the users api_register has inserted: it sets last_group_id, the seed of
\* init_db does not
Registered == {u \in DOMAIN users : users[u].last_group_id # NULL}

\* C24: the first user ever registered has role admin and an active admin
\* membership in group 1, and every other registered user has role user.
FirstRegisteredIsAdmin ==
    Registered # {} =>
        LET first == Min(Registered) IN
        /\ users[first].role = "admin"
        /\ \E m \in DOMAIN memberships :
              /\ memberships[m].user_id = first
              /\ memberships[m].group_id = 1
              /\ memberships[m].role = "admin"
              /\ memberships[m].active
        /\ \A u \in Registered \ {first} : users[u].role = "user"

\* ------------------------------------------------------ account deletion
\* SpecAcct: registration, login with credentials that match a user and with
\* credentials that match none, group creation, a suggestion, the profile
\* and DELETE /api/me.

\* a count that finds no group for any owner
owned_groups_none(uid) == 0

\* SELECT COUNT(*) FROM groups WHERE owner_id = ?
owned_groups(uid) == Cardinality({g \in DOMAIN groups : groups[g].owner_id = uid})

\* a deletion that leaves the user's sessions in the table
delete_user_sessions_kept(tbl, uid) == tbl

\* DELETE FROM sessions WHERE user_id = ?
delete_user_sessions(tbl, uid) == Drop(tbl, {t \in DOMAIN tbl : tbl[t].user_id = uid})

\* DELETE FROM <table> WHERE creator_id = ?
delete_created(tbl, uid) == Drop(tbl, {x \in DOMAIN tbl : tbl[x].creator_id = uid})

\* DELETE /api/me (a route of handle_auth).  referenced: a row of a table
\* api_delete_me does not clean (notifications, push_subscriptions, partitions,
\* votes on the user's suggestions) refers to the user or to a row deleted
\* with it.  With foreign_keys = ON that row, or a group the user owns, makes
\* a DELETE raise sqlite3.IntegrityError: the connection is closed without
\* commit and handle_api_request answers.
DeleteMe(token, pathgid, referenced) ==
    /\ token \in 1..seq.tokens
    /\ LET user == Principal(token, pathgid)
           uid == user.id
           live == SessionsAfterRequest(token, pathgid)
       IN
       IF uid = NULL
       THEN /\ resp' = Resp("delete_me", 401)
            /\ sessions' = live
            /\ UNCHANGED <<users, memberships, suggestions, rehearsals, performances>>
       ELSE IF owned_groups(uid) > 0
       THEN /\ resp' = Resp("delete_me", 400)
            /\ sessions' = live
            /\ UNCHANGED <<users, memberships, suggestions, rehearsals, performances>>
       ELSE IF referenced \/ \E g \in DOMAIN groups : groups[g].owner_id = uid
       THEN /\ resp' = Resp("delete_me",
                            handle_api_request_except("sqlite3.IntegrityError"))
            /\ sessions' = live
            /\ UNCHANGED <<users, memberships, suggestions, rehearsals, performances>>
       ELSE /\ suggestions' = delete_created(suggestions, uid)
            /\ rehearsals' = delete_created(rehearsals, uid)
            /\ performances' = delete_created(performances, uid)
            /\ memberships' = Drop(memberships, {m \in DOMAIN memberships :
                                                   memberships[m].user_id = uid})
            /\ sessions' = delete_session(delete_user_sessions(live, uid), token)
            /\ users' = Drop(users, {uid})
            /\ resp' = [Resp("delete_me", 200) EXCEPT !.target = uid]
    /\ call' = Call(token, pathgid, <<referenced>>)
    /\ UNCHANGED <<groups, seq, now>>
    /\ UNCHANGED <<storevars, uowvars, auxvars>>

\* api_login with a username and password no row of users matches; uid names
\* the user those credentials belonged to
LoginRefused(uid) ==
    /\ uid \in 1..seq.users
    /\ uid \notin DOMAIN users
    /\ resp' = Resp("login", 401)
    /\ call' = Call(NULL, NULL, <<uid>>)
    /\ UNCHANGED dbvars
    /\ UNCHANGED <<storevars, uowvars, auxvars>>

NextAcct ==
    \/ Register
    \/ \E uid \in UserIds : Login(uid)
    \/ \E uid \in UserIds : LoginRefused(uid)
    \/ \E t \in Tokens : CreateGroup(t, NULL)
    \/ \E t \in Tokens : CreateSuggestion(t, NULL)
    \/ \E t \in Tokens, pg \in PathGids : ApiMe(t, pg)
    \/ \E t \in Tokens, pg \in PathGids, ref \in BOOLEAN : DeleteMe(t, pg, ref)

SpecAcct == Init /\ [][NextAcct]_vars

\* C25: no user is deleted while owning a group.  DELETE /api/me by a user
\* who owns a group is answered 400 and leaves the users, the memberships and
\* the session rows (their tokens, users and groups) as they were; and in
\* every state the owner of each group is a row of users.
OwnerNeverDeleted ==
    /\ [](\A g \in DOMAIN groups : groups[g].owner_id \in DOMAIN users)
    /\ [][(/\ resp'.op = "delete_me"
           /\ call'.uid # NULL
           /\ \E g \in DOMAIN groups : groups[g].owner_id = call'.uid)
          => /\ resp'.status = 400
             /\ UNCHANGED <<users, memberships>>
             /\ DOMAIN sessions' = DOMAIN sessions
             /\ \A t \in DOMAIN sessions :
                   /\ sessions'[t].user_id = sessions[t].user_id
                   /\ sessions'[t].group_id = sessions[t].group_id]_vars

\* the owner of a group that another user has joined asked for the deletion
\* of the account and was answered 400; owner, memberships and session remain
OwnerNeverDeletedWitness ==
    /\ resp.op = "delete_me"
    /\ resp.status = 400
    /\ call.uid \in DOMAIN users
    /\ \E g \in DOMAIN groups : groups[g].owner_id = call.uid
    /\ \E m \in DOMAIN memberships : memberships[m].user_id = call.uid
    /\ call.token \in DOMAIN sessions
    /\ Cardinality(DOMAIN users) = 2

\* the users DELETE /api/me has deleted (ids are AUTOINCREMENT, never reused)
Deleted == {u \in 1..seq.users : u \notin DOMAIN users}

NextLogin ==
    \/ Register
    \/ \E uid \in UserIds : Login(uid)
    \/ \E t \in Tokens : Logout(t, NULL)
    \/ \E t \in Tokens, g \in GroupIds : SetContext(t, NULL, g)
    \/ \E t \in Tokens : CreateGroup(t, NULL)
    \/ \E t \in Tokens, g \in GroupIds, mid \in 1..MaxMemberships, a \in BOOLEAN :
          MembersPut(t, NULL, g, mid, "admin", a)
    \/ \E t \in Tokens, g \in GroupIds, uid \in UserIds :
          MembersDelete(t, NULL, g, FALSE, uid)

SpecLogin == Init /\ [][NextLogin]_vars

\* C27: a login binds the new session to the user's last active group when
\* the user holds an active membership in it, otherwise to the lowest-id
\* group in which the user is an active member, otherwise to no group; the
\* group it binds is one in which the user is an active member.
LoginBindsActiveGroup ==
    [][(resp'.op = "login" /\ resp'.status = 200) =>
          LET uid == call'.args[1]
              bound == sessions'[seq'.tokens].group_id
              last == users[uid].last_group_id
              act == {g \in GroupIds : IsActiveMember(uid, g)}
          IN
          /\ seq'.tokens = seq.tokens + 1
          /\ sessions'[seq'.tokens].user_id = uid
          /\ last \in act => bound = last
          /\ (last \notin act /\ act # {}) => bound = Min(act)
          /\ act = {} => bound = NULL
          /\ bound # NULL => bound \in act]_vars

\* a user active in groups 1 and 2 who had switched to group 2 and logged out
\* has logged in again, and the new session, the only one, is bound to group 2
LoginBindsActiveGroupWitness ==
    /\ resp.op = "login"
    /\ resp.status = 200
    /\ DOMAIN sessions = {seq.tokens}
    /\ sessions[seq.tokens].group_id = 2
    /\ IsActiveMember(call.args[1], 1)
    /\ IsActiveMember(call.args[1], 2)

\* ------------------------------------------------ deleting memberships
\* the DELETE of /api/groups/<g>/members the last request made: its group,
\* and the membership row its body named, by id or by user id, in any group
DeleteGroup == call.args[1]

DeleteNamed ==
    IF call.args[2]
    THEN (IF call.args[3] \in DOMAIN memberships THEN call.args[3] ELSE NULL)
    ELSE get_membership(call.args[3], call.args[1])

\* C28: a DELETE on the members endpoint of group G whose body names the id
\* of a membership of another group leaves that membership in place, and a
\* caller who is an active member of G is answered 404.
CrossGroupDeleteRefused ==
    [][(/\ resp'.op = "members_delete"
        /\ call'.args[2]
        /\ call'.args[3] \in DOMAIN memberships
        /\ memberships[call'.args[3]].group_id # call'.args[1])
       => /\ memberships' = memberships
          /\ (/\ (call'.bound # NULL \/ call'.pathgid # NULL)
              /\ verify_group_access(call'.uid, call'.args[1], "user") # NONE)
             => resp'.status = 404]_vars

\* an admin of group 1 named, on the members endpoint of group 1, the id of a
\* membership of group 2, was answered 404, and the membership is in place
CrossGroupDeleteRefusedWitness ==
    /\ resp.op = "members_delete"
    /\ resp.status = 404
    /\ call.args[2]
    /\ DeleteNamed # NULL
    /\ memberships[DeleteNamed].group_id # DeleteGroup
    /\ verify_group_access(call.uid, DeleteGroup, "user") = "admin"

\* C29: a member of group G whose membership role is not admin deletes no
\* membership but its own: a DELETE that names the membership of another
\* user in G is answered 403 and leaves the memberships as they were.
NonAdminDeletesOnlyOwn ==
    [][(/\ resp'.op = "members_delete"
        /\ (call'.bound # NULL \/ call'.pathgid # NULL)
        /\ verify_group_access(call'.uid, call'.args[1], "user")
              \in Roles \ {"admin"}
        /\ \E m \in DOMAIN memberships :
              /\ memberships[m].group_id = call'.args[1]
              /\ memberships[m].user_id # call'.uid
              /\ IF call'.args[2] THEN m = call'.args[3]
                 ELSE memberships[m].user_id = call'.args[3])
       => /\ resp'.status = 403
          /\ memberships' = memberships]_vars

\* a member with role user named the membership of the group's admin, by the
\* admin's user id, and was answered 403; both memberships are in place
NonAdminDeletesOnlyOwnWitness ==
    /\ resp.op = "members_delete"
    /\ resp.status = 403
    /\ ~call.args[2]
    /\ verify_group_access(call.uid, DeleteGroup, "user") = "user"
    /\ DeleteNamed # NULL
    /\ memberships[DeleteNamed].user_id # call.uid
    /\ memberships[DeleteNamed].role = "admin"

\* --------------------------------------------------- ownership of resources
\* SpecOwn: registration, the update of memberships, and the creation, update
\* and deletion of a performance.
NextOwn ==
    \/ Register
    \/ \E t \in Tokens, g \in GroupIds, mid \in 1..MaxMemberships, r \in Roles :
          MembersPut(t, NULL, g, mid, r, TRUE)
    \/ \E t \in Tokens : CreatePerformance(t, NULL)
    \/ \E t \in Tokens, i \in ItemIds, c \in Contents :
          UpdatePerformanceId(t, NULL, i, c)
    \/ \E t \in Tokens, i \in ItemIds : DeletePerformanceId(t, NULL, i)

SpecOwn == Init /\ [][NextOwn]_vars

\* C30: the ownership check of a handler goes by the caller's membership
\* role in the resolved group.  On a performance of group G, a member whose
\* role in G is user is refused the update and the deletion of a performance
\* another user created, which stays as it was; a member whose role in G is
\* moderator or admin, and the creator, are answered 200.
OwnershipByMembershipRole ==
    [][(/\ resp'.op \in {"update_performance", "delete_performance"}
        /\ call'.uid # NULL
        /\ call'.pathgid = NULL
        /\ call'.bound # NULL
        /\ call'.args[1] \in DOMAIN performances
        /\ performances[call'.args[1]].group_id = call'.bound)
       => LET role == verify_group_access(call'.uid, call'.bound, "user")
              mine == performances[call'.args[1]].creator_id = call'.uid
          IN
          /\ (role = "user" /\ ~mine) =>
                (resp'.status >= 400 /\ performances' = performances)
          /\ (role \in {"moderator", "admin"} \/ (role = "user" /\ mine)) =>
                resp'.status = 200]_vars

\* ------------------------------------------------- schema and migrations
\* SpecBoot: run_server on the embedded backend, started any number of times
\* (up to MaxRuns) on a database file that is absent, or was left by an
\* earlier version of the schema.
MaxRuns == 2

\* the migrations init_db calls, in the order of the calls, each with one
\* positional argument, DB_FILENAME
Migrations == <<"migrate_to_multigroup", "migrate_suggestion_votes",
                "migrate_performance_location", "migrate_sessions_group_id">>

\* the number of parameters of each script's migrate()
Params(fn) ==
    CASE fn = "migrate_to_multigroup" -> 0
      [] fn = "migrate_suggestion_votes" -> 0
      [] fn = "migrate_performance_location" -> 1
      [] fn = "migrate_sessions_group_id" -> 1

\* the schema after the body of a script's migrate(db_path); the tables of
\* init_db exist by then, so migrate_to_multigroup returns at its second check
MigrateBody(fn, d) ==
    CASE fn = "migrate_performance_location" ->
            [d EXCEPT !.cols = @ \cup {"performances.location"}]
      [] fn = "migrate_sessions_group_id" ->
            [d EXCEPT !.cols = @ \cup {"sessions.group_id"}]
      [] OTHER -> d

\* the calls of init_db's migrations from the i-th on: a call with more
\* arguments than migrate() takes raises TypeError and ends init_db
RECURSIVE RunMigrations(_, _)
RunMigrations(i, d) ==
    IF i > Len(Migrations) THEN d
    ELSE IF Params(Migrations[i]) < 1 THEN [d EXCEPT !.err = "TypeError"]
    ELSE RunMigrations(i + 1, MigrateBody(Migrations[i], d))

\* the statements of init_db inside its connection: CREATE TABLE IF NOT
\* EXISTS for every table, then the seed of a new database (with the given
\* password or a generated one) or the repair of a placeholder admin hash
CreateAndSeed(d, admin_password) ==
    LET new_db == ~d.file
        made == BootTables \ d.tables
        created == [d EXCEPT !.file = TRUE, !.tables = BootTables,
                             !.cols = @ \cup UNION {ColumnsOf(t) : t \in made}]
    IN  IF new_db
        THEN [created EXCEPT !.admin = "set", !.group1 = TRUE]
        ELSE IF d.admin = "zero"
        THEN IF admin_password # NULL
             THEN [created EXCEPT !.admin = "set"]
             ELSE [created EXCEPT !.err = "RuntimeError"]
        ELSE created

\* init_db, up to the exception that ends it
init_db(d, admin_password) ==
    LET seeded == CreateAndSeed([d EXCEPT !.err = "none"], admin_password)
        migrated == RunMigrations(1, seeded)
    IN  IF seeded.err # "none" THEN seeded
        ELSE IF migrated.err # "none" THEN migrated
        ELSE [migrated EXCEPT !.cols = @ \cup {"sessions.group_id"}]

\* run_server: init_db, then the HTTP server unless init_db raised
RunServer(admin_password) ==
    /\ boot.runs < MaxRuns
    /\ LET d == init_db(boot, admin_password)
       IN  boot' = [d EXCEPT !.runs = boot.runs + 1, !.pw = admin_password,
                             !.serving = (d.err = "none")]
    /\ UNCHANGED <<dbvars, resp, call, storevars, uowvars, wrvars, racevars,
                   gatevars, regvars, conns, votes>>

\* the database files a start can find: none, or one with any part of the
\* schema, an admin row only in a users table and group 1 only in a groups
\* table
BootFiles ==
    {[file |-> f, tables |-> ts, cols |-> cs, admin |-> a, group1 |-> g,
      runs |-> 0, pw |-> NULL, err |-> "none", serving |-> FALSE] :
        f \in BOOLEAN, ts \in SUBSET BootTables,
        cs \in SUBSET UNION {ColumnsOf(t) : t \in BootTables},
        a \in {"none", "zero", "set"}, g \in BOOLEAN}

InitBoot ==
    /\ InitDb
    /\ resp = Resp("init", 0)
    /\ call = NoCall
    /\ proc = [p \in Procs |-> [pc |-> "idle"]]
    /\ lock = NULL
    /\ issued = EmptyTable
    /\ revoked = {}
    /\ backend = "sqlite"
    /\ uow = [state |-> "idle", n |-> 0]
    /\ committed = {}
    /\ wr = [state |-> "idle", n |-> 0]
    /\ req = [p \in Procs |-> [pc |-> "idle"]]
    /\ usernames = [u \in DOMAIN users |-> "admin"]
    /\ gatecall = [state |-> "idle"]
    /\ reg = [state |-> "idle", n |-> 0]
    /\ conns = <<>>
    /\ votes = NoVotes
    /\ boot \in {d \in BootFiles :
                    /\ ~d.file => (d.tables = {} /\ d.admin = "none")
                    /\ d.cols \subseteq UNION {ColumnsOf(t) : t \in d.tables}
                    /\ d.admin # "none" => "users" \in d.tables
                    /\ d.group1 => "groups" \in d.tables}

NextBoot == \E admin_password \in {NULL, 1} : RunServer(admin_password)

SpecBoot == InitBoot /\ [][NextBoot]_vars

\* the schema and the seeded rows of the database file
Database(d) == <<d.file, d.tables, d.cols, d.admin, d.group1>>

\* C31: a run of the schema and migration engine on a database an earlier
\* run has migrated raises no error and leaves the schema and the data as
\* they were.
MigrationIdempotent ==
    [][(boot.runs >= 1 /\ boot'.runs = boot.runs + 1)
       => (boot'.err = "none" /\ Database(boot') = Database(boot))]_vars

MaxConns == 2

MaxParams == 2

Conns == 1..MaxConns

Bodies == {<<>>, <<"?">>, <<"'?'">>, <<"?", "?">>, <<"?", "'?'">>,
           <<"'?'", "?">>}

Stmts == {[verb |-> v, body |-> b] : v \in {"INSERT", "SELECT"}, b \in Bodies}

Queries ==
    {<<>>} \cup {<<s>> : s \in Stmts}
           \cup {<<s, t>> : s \in Stmts,
                            t \in {[verb |-> "INSERT", body |-> <<"?">>],
                                   [verb |-> "SELECT", body |-> <<>>]}}

\* the number of tokens of a statement that are the placeholder ph
RECURSIVE CountOf(_, _)
CountOf(body, ph) ==
    IF body = <<>> THEN 0
    ELSE (IF Head(body) = ph THEN 1 ELSE 0) + CountOf(Tail(body), ph)

RECURSIVE SumOver(_, _)
SumOver(query, ph) ==
    IF query = <<>> THEN 0
    ELSE CountOf(Head(query).body, ph) + SumOver(Tail(query), ph)

\* the tokens of parsed[0] with every "?" placeholder written "%s"
Translated(stmt) ==
    [stmt EXCEPT !.body = [i \in DOMAIN @ |-> IF @[i] = "?" THEN "%s" ELSE @[i]]]

\* the check of to_psycopg2_params left out
mismatched_never(count, params) == FALSE

\* count != len(params)
mismatched(count, params) == count # params

\* to_psycopg2_params(query, params): the text and the parameters to hand to
\* the driver, or the ValueError
to_psycopg2_params(query, params) ==
    IF query = <<>> THEN [error |-> "none", sql |-> query, params |-> params]
    ELSE IF mismatched(CountOf(query[1].body, "?"), params)
    THEN [error |-> "ValueError", sql |-> <<>>, params |-> params]
    ELSE [error |-> "none", sql |-> <<Translated(query[1])>>, params |-> params]

\* cursor.execute of the drivers: psycopg2 merges the parameters into the
\* text before it sends it, and refuses too few or, when the text has a
\* placeholder, too many; sqlite3 prepares one statement, refuses a text with
\* more, and refuses a number of bindings other than the statement's
target_execute(sql, params) ==
    IF using_postgres
    THEN IF SumOver(sql, "%s") > params THEN "IndexError"
         ELSE IF SumOver(sql, "%s") # 0 /\ SumOver(sql, "%s") < params
         THEN "TypeError"
         ELSE "none"
    ELSE IF Len(sql) > 1 THEN "ProgrammingError"
         ELSE IF SumOver(sql, "?") # params THEN "ProgrammingError"
         ELSE "none"

\* sql.lstrip().upper().startswith("INSERT")
IsInsert(sql) == sql # <<>> /\ sql[1].verb = "INSERT"

\* the statements of a text that insert a row when the engine runs it
Inserts(sql) == {i \in DOMAIN sql : sql[i].verb = "INSERT"}

InitStmt ==
    /\ InitFresh
    /\ memberships = EmptyTable
    /\ sessions = EmptyTable
    /\ suggestions = EmptyTable
    /\ rehearsals = EmptyTable
    /\ performances = EmptyTable
    /\ now = 0
    /\ resp = Resp("init", 0)
    /\ call = NoCall
    /\ proc = [p \in Procs |-> [pc |-> "idle"]]
    /\ lock = NULL
    /\ issued = EmptyTable
    /\ revoked = {}
    /\ backend \in Backends
    /\ uow = [state |-> "idle", n |-> 0]
    /\ committed = {}
    /\ wr = [n |-> 0, next |-> 0,
             lastrowid |-> [c \in Conns |-> NULL],
             pending |-> [c \in Conns |-> NULL],
             last |-> [state |-> "idle"]]
    /\ req = [p \in Procs |-> [pc |-> "idle"]]
    /\ usernames = [u \in DOMAIN users |-> "admin"]
    /\ gatecall = [state |-> "idle"]
    /\ reg = [state |-> "idle", n |-> 0]
    /\ InitExt

stmtframe == <<dbvars, resp, call, storevars, uowvars, racevars, gatevars,
               regvars, extvars>>

\* execute_write(cur, query, params) on a cursor of connection c, up to the
\* return of target.execute: the adapter's check, the driver's, and the
\* statement run by the engine, which gives an inserted row the next id of
\* the table.  On the embedded backend the driver sets cur.lastrowid and the
\* call returns; on the client/server backend an INSERT goes on to SELECT
\* LASTVAL(), since the driver's cur.lastrowid is 0
ExecuteWrite(c, query, params) ==
    /\ wr.n < MaxStatements
    /\ wr.pending[c] = NULL
    /\ LET given == IF using_postgres THEN to_psycopg2_params(query, params)
                    ELSE [error |-> "none", sql |-> query, params |-> params]
           error == IF given.error # "none" THEN given.error
                    ELSE target_execute(given.sql, given.params)
           sent == IF error = "none" THEN given.sql ELSE <<>>
           inserted == IF Inserts(sent) # {} THEN wr.next + 1 ELSE NULL
           await == using_postgres /\ error = "none" /\ IsInsert(given.sql)
       IN  wr' = [n |-> wr.n + 1,
                  next |-> IF inserted # NULL THEN inserted ELSE wr.next,
                  lastrowid |-> IF ~using_postgres /\ inserted # NULL
                                THEN [wr.lastrowid EXCEPT ![c] = inserted]
                                ELSE wr.lastrowid,
                  pending |-> IF await THEN [wr.pending EXCEPT ![c] = inserted]
                              ELSE wr.pending,
                  last |-> [state |-> IF error # "none" THEN "raised"
                                      ELSE IF await THEN "lastval"
                                      ELSE "returned",
                            conn |-> c, query |-> query, params |-> params,
                            error |-> error, sent |-> sent,
                            inserted |-> inserted]]
    /\ UNCHANGED stmtframe

\* target.execute("SELECT LASTVAL()"); target.lastrowid = target.fetchone()[0]
\* the row is a RealDictRow, a mapping with the key 'lastval' only
SelectLastval(c) ==
    /\ wr.pending[c] # NULL
    /\ wr' = [wr EXCEPT !.pending[c] = NULL,
                        !.last = [state |-> "raised", conn |-> c,
                                  query |-> <<[verb |-> "INSERT", body |-> <<>>]>>,
                                  params |-> 0, error |-> "KeyError",
                                  sent |-> <<>>,
                                  inserted |-> wr.pending[c]]]
    /\ UNCHANGED stmtframe

NextStmt ==
    \/ \E c \in Conns, query \in Queries, params \in 0..MaxParams :
          ExecuteWrite(c, query, params)
    \/ \E c \in Conns : SelectLastval(c)

SpecStmt == InitStmt /\ [][NextStmt]_vars

\* C33: when the number of placeholders of the statement differs from the
\* number of parameters, execute_write raises the programmer error
\* (ValueError from the adapter on the client/server backend,
\* ProgrammingError from the binding step on the embedded one) and no
\* statement is run.
MismatchRaises ==
    (/\ wr.last.state # "idle"
     /\ wr.last.error # "KeyError"
     /\ wr.last.query # <<>>
     /\ CountOf(wr.last.query[1].body, "?") # wr.last.params)
    => /\ wr.last.state = "raised"
       /\ wr.last.error = IF using_postgres THEN "ValueError"
                          ELSE "ProgrammingError"
       /\ wr.last.sent = <<>>
       /\ wr.last.inserted = NULL

MismatchRaisesWitness ==
    /\ wr.last.state = "raised"
    /\ using_postgres
    /\ wr.last.error = "ValueError"
    /\ Len(wr.last.query) = 1
    /\ CountOf(wr.last.query[1].body, "?") > wr.last.params
    /\ wr.last.params > 0

\* C34: once an INSERT sent through execute_write has inserted a row, the
\* call returns and the cursor's lastrowid is the id of that row, on both
\* backends and whatever the other connection inserted before or meanwhile.
LastrowidIsInsertedId ==
    (wr.last.state \in {"returned", "raised"} /\ wr.last.inserted # NULL)
    => /\ wr.last.state = "returned"
       /\ wr.lastrowid[wr.last.conn] = wr.last.inserted

\* ------------------------------------------------------------ connections
\* SpecConn: request threads that enter and leave
\* "with get_db_connection() as conn", up to MaxOpens connections in all.
MaxOpens == 3

\* the statements get_db_connection runs on a new connection before its try:
\* three PRAGMAs on the embedded backend, none on the client/server one
SetupStatements == IF using_postgres THEN 0 ELSE 3

InitConn ==
    /\ InitFresh
    /\ memberships = EmptyTable
    /\ sessions = EmptyTable
    /\ suggestions = EmptyTable
    /\ rehearsals = EmptyTable
    /\ performances = EmptyTable
    /\ now = 0
    /\ resp = Resp("init", 0)
    /\ call = NoCall
    /\ proc = [p \in Procs |-> [pc |-> "idle"]]
    /\ lock = NULL
    /\ issued = EmptyTable
    /\ revoked = {}
    /\ backend \in Backends
    /\ uow = [state |-> "idle", n |-> 0]
    /\ committed = {}
    /\ InitAux

connframe == <<dbvars, resp, call, storevars, uowvars, wrvars, usernames,
               gatevars, regvars, boot, votes>>

\* conn.close() in the finally of get_db_connection
close(tbl, c) == [tbl EXCEPT ![c].state = "closed"]

\* a request thread enters the with statement: connect() returns a
\* connection, then the setup statements run, each through execute_write.
\* When one of them raises (raises is TRUE), the exception leaves
\* get_db_connection before its try: no finally closes the connection, the
\* with body never runs and the handler is left by the exception
ConnEnter(p, raises) ==
    /\ req[p].pc = "idle"
    /\ Len(conns) < MaxOpens
    /\ raises => SetupStatements > 0
    /\ conns' = Append(conns, [by |-> p, state |-> "open"])
    /\ req' = [req EXCEPT ![p] =
                  IF raises THEN [pc |-> "left", exit |-> "setup"]
                  ELSE [pc |-> "body", conn |-> Len(conns) + 1]]
    /\ UNCHANGED connframe

\* the with body ends: it runs to its end or returns early (the generator
\* goes on to safe_commit, which may raise), or it raises (the exception is
\* thrown into the generator at its yield); the finally closes the
\* connection in each case, and the handler is left
ConnLeave(p, exit) ==
    /\ req[p].pc = "body"
    /\ conns' = close(conns, req[p].conn)
    /\ req' = [req EXCEPT ![p] = [pc |-> "left", exit |-> exit]]
    /\ UNCHANGED connframe

\* the request is over: answered, or dropped by the server after the
\* exception; the thread takes the next request
ConnNext(p) ==
    /\ req[p].pc = "left"
    /\ req' = [req EXCEPT ![p] = [pc |-> "idle"]]
    /\ UNCHANGED <<conns, connframe>>

\* the interpreter finalizes a connection object nothing refers to any more,
\* at a time of its choosing, which closes it
ConnFinalize(c) ==
    /\ c \in DOMAIN conns
    /\ conns[c].state = "open"
    /\ ~\E p \in Procs : req[p].pc = "body" /\ req[p].conn = c
    /\ conns' = [conns EXCEPT ![c].state = "closed"]
    /\ UNCHANGED <<req, connframe>>

Exits == {"normal", "return", "exception", "commit_raises"}

NextConn ==
    \/ \E p \in Procs, raises \in BOOLEAN : ConnEnter(p, raises)
    \/ \E p \in Procs, exit \in Exits : ConnLeave(p, exit)
    \/ \E p \in Procs : ConnNext(p)
    \/ \E c \in 1..MaxOpens : ConnFinalize(c)

SpecConn == InitConn /\ [][NextConn]_vars

\* the connections that are open
OpenConns == {c \in DOMAIN conns : conns[c].state = "open"}

\* C35: a connection opened for a unit of work is released on every way out
\* of it, and none is open once its request is over: every open connection
\* is the one of a with body that is still running.
ConnectionsReleased ==
    \A c \in OpenConns :
        req[conns[c].by].pc = "body" /\ req[conns[c].by].conn = c

\* ------------------------------------------------- changing memberships
\* the users who hold an active admin membership of group g
ActiveAdmins(tbl, g) ==
    {tbl[m].user_id : m \in {k \in DOMAIN tbl :
        tbl[k].group_id = g /\ tbl[k].active /\ tbl[k].role = "admin"}}

\* C36: the role and the active flag of a membership of group G change only
\* by a request of a user who is an active admin of G at that time.
MembershipChangedByGroupAdmin ==
    [][\A m \in DOMAIN memberships \cap DOMAIN memberships' :
          (\/ memberships'[m].role # memberships[m].role
           \/ memberships'[m].active # memberships[m].active)
          => call'.uid \in ActiveAdmins(memberships, memberships[m].group_id)]_vars

\* C37: a group that has members does not lose its last active admin: after
\* a request, a group that had an active admin and still has a member has an
\* active admin.
NeverAdminless ==
    [][\A g \in DOMAIN groups :
          (/\ ActiveAdmins(memberships, g) # {}
           /\ \E m \in DOMAIN memberships' : memberships'[m].group_id = g)
          => ActiveAdmins(memberships', g) # {}]_vars

\* --------------------------------------------------------- creating a group
\* SpecMk: api_create_group statement by statement, with the failures a
\* statement can meet.  create_group and create_membership each open their
\* own connection and commit it.
CreateGroupProgram ==
    <<"connect", "insert_group", "insert_settings", "commit_group",
      "connect", "insert_membership", "commit_membership", "send_json">>

mkframe == <<users, sessions, suggestions, rehearsals, performances, now, resp,
             call, storevars, uowvars, wrvars, racevars, gatevars, extvars>>

\* api_create_group is entered for the logged-in user uid
MkCall(uid) ==
    /\ reg.state \in {"idle", "done"}
    /\ reg.n < MaxRequests
    /\ uid \in DOMAIN users
    /\ seq.groups < MaxGroups
    /\ seq.memberships < MaxMemberships
    /\ seq.codes < MaxCodes
    /\ reg' = [state |-> "running", n |-> reg.n + 1, pc |-> 1, uid |-> uid,
               gid |-> NULL, fault |-> "none", exc |-> "none", status |-> 0]
    /\ UNCHANGED <<groups, memberships, seq, mkframe>>

\* the statement at pc returns; a commit makes the rows of its connection
\* visible; on the client/server backend the first INSERT raises in
\* execute_write and its connection is closed without a commit
MkStep ==
    /\ reg.state = "running"
    /\ LET stmt == CreateGroupProgram[reg.pc] IN
       IF stmt \in {"insert_group", "insert_membership"} /\ InsertRaises("insert")
       THEN /\ reg' = [reg EXCEPT !.state = "done", !.exc = "KeyError",
                                  !.status = handle_api_request_except("KeyError")]
            /\ UNCHANGED <<groups, memberships, seq>>
       ELSE IF stmt = "commit_group"
       THEN /\ groups' = Put(groups, seq.groups + 1,
                             [owner_id |-> reg.uid, code |-> NewCode])
            /\ seq' = [seq EXCEPT !.groups = @ + 1, !.codes = @ + 1]
            /\ reg' = [reg EXCEPT !.pc = @ + 1, !.gid = seq.groups + 1]
            /\ UNCHANGED memberships
       ELSE IF stmt = "commit_membership"
       THEN /\ memberships' = create_membership(memberships, seq.memberships + 1,
                                                reg.uid, reg.gid, "admin")
            /\ seq' = [seq EXCEPT !.memberships = @ + 1]
            /\ reg' = [reg EXCEPT !.pc = @ + 1]
            /\ UNCHANGED groups
       ELSE IF stmt = "send_json"
       THEN /\ reg' = [reg EXCEPT !.state = "done", !.status = 201]
            /\ UNCHANGED <<groups, memberships, seq>>
       ELSE /\ reg' = [reg EXCEPT !.pc = @ + 1]
            /\ UNCHANGED <<groups, memberships, seq>>
    /\ UNCHANGED mkframe

\* the statement at pc meets a failure: the with block is left without a
\* commit, and handle_api_request answers the exception
MkRaise(fault, exc) ==
    /\ reg.state = "running"
    /\ CreateGroupProgram[reg.pc] # "send_json"
    /\ fault \in FaultsOf(CreateGroupProgram[reg.pc])
    /\ exc \in Raised(CreateGroupProgram[reg.pc], fault)
    /\ reg' = [reg EXCEPT !.state = "done", !.fault = fault, !.exc = exc,
                          !.status = handle_api_request_except(exc)]
    /\ UNCHANGED <<groups, memberships, seq, mkframe>>

\* the database of init_db after one registration: the seeded user 1, and
\* user 2, whom api_register made a member of group 1; both are logged out
InitMk ==
    /\ users = Put(Put(EmptyTable, 1, [role |-> "user", last_group_id |-> NULL]),
                   2, [role |-> "user", last_group_id |-> 1])
    /\ groups = Put(EmptyTable, 1, [owner_id |-> 1, code |-> 1])
    /\ memberships = create_membership(EmptyTable, 1, 2, 1, "user")
    /\ seq = [users |-> 2, groups |-> 1, memberships |-> 1, tokens |-> 0,
              codes |-> 1, sug |-> 0, reh |-> 0, perf |-> 0]
    /\ sessions = EmptyTable
    /\ suggestions = EmptyTable
    /\ rehearsals = EmptyTable
    /\ performances = EmptyTable
    /\ now = 0
    /\ resp = Resp("init", 0)
    /\ call = NoCall
    /\ proc = [p \in Procs |-> [pc |-> "idle"]]
    /\ lock = NULL
    /\ issued = EmptyTable
    /\ revoked = {}
    /\ backend \in Backends
    /\ uow = [state |-> "idle", n |-> 0]
    /\ committed = {}
    /\ InitAux

NextMk ==
    \/ \E uid \in UserIds : MkCall(uid)
    \/ MkStep
    \/ \E fault \in Faults, exc \in Exceptions : MkRaise(fault, exc)

SpecMk == InitMk /\ [][NextMk]_vars

\* C38: once a create-group request has finished, with success or with a
\* failure, the group it made either does not exist or exists together with
\* an active admin membership of its creator.
CreateGroupAllOrNothing ==
    (reg.state = "done" /\ reg.gid # NULL /\ reg.gid \in DOMAIN groups)
    => reg.uid \in ActiveAdmins(memberships, reg.gid)

\* ------------------------------------------------------------------- votes
\* SpecVote: api_vote_suggestion_id and api_unvote_suggestion_id run by two
\* request threads, statement by statement.  votes.rows[<<s, u>>] is the
\* number of rows of suggestion_votes for suggestion s and user u;
\* votes.likes[s] is suggestions.likes.  A thread's statements between its
\* first write and its commit see its own uncommitted change (req[p].delta)
\* on top of the committed rows.
InitVote ==
    /\ users = Put(Put(EmptyTable, 1, [role |-> "admin", last_group_id |-> 1]),
                   2, [role |-> "user", last_group_id |-> 1])
    /\ groups = Put(EmptyTable, 1, [owner_id |-> 1, code |-> 1])
    /\ memberships = create_membership(
                        create_membership(EmptyTable, 1, 1, 1, "admin"),
                        2, 2, 1, "user")
    /\ suggestions = Put(EmptyTable, 1,
                         [group_id |-> 1, creator_id |-> 1])
    /\ seq = [users |-> 2, groups |-> 1, memberships |-> 2, tokens |-> 0,
              codes |-> 1, sug |-> 1, reh |-> 0, perf |-> 0]
    /\ sessions = EmptyTable
    /\ rehearsals = EmptyTable
    /\ performances = EmptyTable
    /\ now = 0
    /\ resp = Resp("init", 0)
    /\ call = NoCall
    /\ proc = [p \in Procs |-> [pc |-> "idle"]]
    /\ lock = NULL
    /\ issued = EmptyTable
    /\ revoked = {}
    /\ backend \in Backends
    /\ uow = [state |-> "idle", n |-> 0]
    /\ committed = {}
    /\ InitAux

voteframe == <<dbvars, resp, call, proc, issued, revoked, uowvars, wrvars,
               usernames, gatevars, regvars, boot, conns>>

\* the rows of suggestion sid the statements of a thread see
RowsSeen(rows, delta, sid, uid) ==
    [k \in DOMAIN rows |-> IF k = <<sid, uid>> THEN rows[k] + delta ELSE rows[k]]

RECURSIVE SumRows(_, _)
SumRows(rows, keys) ==
    IF keys = {} THEN 0
    ELSE LET k == CHOOSE x \in keys : TRUE
         IN  rows[k] + SumRows(rows, keys \ {k})

\* a count that does not see the connection's own change
count_votes_committed(rows, delta, sid, uid) ==
    SumRows(rows, {k \in DOMAIN rows : k[1] = sid})

\* SELECT COUNT(*) FROM suggestion_votes WHERE suggestion_id = ?
count_votes(rows, delta, sid, uid) ==
    SumRows(RowsSeen(rows, delta, sid, uid), {k \in DOMAIN rows : k[1] = sid})

\* the handler is entered by user uid for suggestion sid: the gate, then
\* SELECT 1 FROM suggestions WHERE id = ? AND group_id = ?
VoteBegin(p, kind, uid, sid) ==
    /\ req[p].pc = "idle"
    /\ uid \in DOMAIN users
    /\ LET gid == users[uid].last_group_id
           found == sid \in DOMAIN suggestions /\ suggestions[sid].group_id = gid
       IN  req' = [req EXCEPT ![p] =
              IF verify_group_access(uid, gid, "user") = NONE
              THEN [pc |-> "idle", kind |-> kind, status |-> 403]
              ELSE IF ~found THEN [pc |-> "idle", kind |-> kind, status |-> 404]
              ELSE [pc |-> "write", kind |-> kind, uid |-> uid, sid |-> sid,
                    delta |-> 0, likes |-> NULL]]
    /\ UNCHANGED <<votes, lock, voteframe>>

\* INSERT OR IGNORE INTO suggestion_votes, or DELETE FROM suggestion_votes:
\* the first write of the connection.  The embedded engine gives it the
\* write lock, which it keeps until the commit; held by another connection,
\* the statement waits.  The client/server engine refuses INSERT OR IGNORE
VoteWrite(p) ==
    /\ req[p].pc = "write"
    /\ LET r == req[p]
           has == votes.rows[<<r.sid, r.uid>>]
       IN
       IF using_postgres
       THEN /\ req' = [req EXCEPT ![p] =
                IF r.kind = "vote"
                THEN [pc |-> "idle", kind |-> r.kind,
                      status |-> handle_api_request_except("psycopg2.ProgrammingError")]
                ELSE [r EXCEPT !.pc = "count", !.delta = 0 - has]]
            /\ UNCHANGED lock
       ELSE /\ lock = NULL
            /\ lock' = p
            /\ req' = [req EXCEPT ![p] =
                [r EXCEPT !.pc = "count",
                          !.delta = IF r.kind = "vote"
                                    THEN (IF has = 0 THEN 1 ELSE 0)
                                    ELSE 0 - has]]
    /\ UNCHANGED <<votes, voteframe>>

\* the statement gives up on the lock: execute_write raises, the connection
\* is closed and the request is answered 500
VoteLocked(p) ==
    /\ req[p].pc = "write"
    /\ ~using_postgres
    /\ lock \notin {NULL, p}
    /\ req' = [req EXCEPT ![p] =
                  [pc |-> "idle", kind |-> req[p].kind,
                   status |-> handle_api_request_except("sqlite3.OperationalError")]]
    /\ UNCHANGED <<votes, lock, voteframe>>

\* SELECT COUNT(*) ...; likes = cur.fetchone()[0]; UPDATE suggestions SET
\* likes = ?.  On the client/server backend the row has no index 0
VoteCount(p) ==
    /\ req[p].pc = "count"
    /\ LET r == req[p] IN
       req' = [req EXCEPT ![p] =
          IF count_raises
          THEN [pc |-> "idle", kind |-> r.kind,
                status |-> handle_api_request_except("KeyError")]
          ELSE [r EXCEPT !.pc = "commit",
                         !.likes = count_votes(votes.rows, r.delta, r.sid, r.uid)]]
    /\ UNCHANGED <<votes, lock, voteframe>>

\* safe_commit(conn): the change of the rows and the new likes become the
\* stored ones, the write lock is given up, and the row is answered
VoteCommit(p) ==
    /\ req[p].pc = "commit"
    /\ LET r == req[p] IN
       /\ votes' = [rows |-> RowsSeen(votes.rows, r.delta, r.sid, r.uid),
                    likes |-> [votes.likes EXCEPT ![r.sid] = r.likes]]
       /\ req' = [req EXCEPT ![p] = [pc |-> "idle", kind |-> r.kind,
                                     status |-> 200]]
    /\ lock' = NULL
    /\ UNCHANGED voteframe

NextVote ==
    \/ \E p \in Procs, kind \in {"vote", "unvote"}, uid \in UserIds,
          sid \in 1..MaxItems : VoteBegin(p, kind, uid, sid)
    \/ \E p \in Procs : VoteWrite(p)
    \/ \E p \in Procs : VoteLocked(p)
    \/ \E p \in Procs : VoteCount(p)
    \/ \E p \in Procs : VoteCommit(p)

SpecVote == InitVote /\ [][NextVote]_vars

\* C39: when no vote or unvote request is under way, the likes of every
\* suggestion are the number of its vote rows, and no user has more than one
\* row for it.
LikesAreVotes ==
    (\A p \in Procs : req[p].pc = "idle")
    => /\ \A sid \in DOMAIN votes.likes :
            votes.likes[sid] =
                SumRows(votes.rows, {k \in DOMAIN votes.rows : k[1] = sid})
       /\ \A k \in DOMAIN votes.rows : votes.rows[k] <= 1

\* both users have voted for the suggestion, each thread's last request was
\* answered 200, and no request is under way
LikesAreVotesWitness ==
    /\ votes.likes[1] = 2
    /\ \A p \in Procs : req[p].pc = "idle" /\ "status" \in DOMAIN req[p]
    /\ \A p \in Procs : req[p].status = 200
    /\ votes.rows[<<1, 1>>] = 1
    /\ votes.rows[<<1, 2>>] = 1

\* ----------------------------------------------------------- leaving a group
\* SpecLeave: a user who has registered (member of group 1), created groups
\* 2 and 3 and logged in twice switches the context of either session and
\* leaves groups.  The two sessions start bound to any of the three groups.
LeaveGroups == 1..3

InitLeave ==
    /\ users \in {Put(Put(EmptyTable, 1, [role |-> "user", last_group_id |-> NULL]),
                      2, [role |-> "user", last_group_id |-> g]) : g \in LeaveGroups}
    /\ groups = [g \in LeaveGroups |->
                    [owner_id |-> IF g = 1 THEN 1 ELSE 2, code |-> g]]
    /\ memberships = [m \in 1..3 |->
                    [user_id |-> 2, group_id |-> m,
                     role |-> IF m = 1 THEN "user" ELSE "admin", active |-> TRUE]]
    /\ now = 0
    /\ sessions \in {generate_session(generate_session(EmptyTable, 1, 2, g, WINDOW),
                                      2, 2, h, WINDOW) : g, h \in LeaveGroups}
    /\ seq = [users |-> 2, groups |-> 3, memberships |-> 3, tokens |-> 2,
              codes |-> 3, sug |-> 0, reh |-> 0, perf |-> 0]
    /\ suggestions = EmptyTable
    /\ rehearsals = EmptyTable
    /\ performances = EmptyTable
    /\ resp = Resp("init", 0)
    /\ call = NoCall
    /\ InitIdle

NextLeave ==
    \/ \E t \in Tokens, g \in LeaveGroups : SetContext(t, NULL, g)
    \/ \E t \in Tokens, g \in LeaveGroups, uid \in UserIds :
          MembersDelete(t, NULL, g, FALSE, uid)

SpecLeave == InitLeave /\ [][NextLeave]_vars

\* C40: when a user leaves group G, each other session of that user that is
\* bound to a different group, of which the user is still an active member,
\* keeps its group.
LeaveKeepsOtherSessions ==
    [][(/\ resp'.op = "members_delete"
        /\ resp'.status = 200
        /\ resp'.target = call'.uid)
       => \A t \in (DOMAIN sessions \cap DOMAIN sessions') \ {call'.token} :
             (/\ sessions[t].user_id = call'.uid
              /\ sessions[t].group_id # NULL
              /\ sessions[t].group_id # resp'.gid
              /\ IsActiveMember(call'.uid, sessions[t].group_id))
             => sessions'[t].group_id = sessions[t].group_id]_vars

====
